---- MODULE Spec2Model ----
(***************************************************************************)
(* MassScanner: the scanner engine (src/src/core/scanner.py), the receiver *)
(* driver (src/src/core/sdr_driver.py) and the consumer side of the queues *)
(* (src/src/ui/main_window.py), as a state machine.                        *)
(*                                                                         *)
(* Frequencies and sample rates are integers in Hz.  Powers in dB are      *)
(* Python floats in the code; here they are values of a binary floating    *)
(* point format with MantBits significant bits (the code's has 53),        *)
(* counted in units of its smallest quantum, and every float operation of  *)
(* the code rounds to nearest, ties to even (FlRound).  A chunk of IQ      *)
(* samples is represented by what the analysis derives from it: its        *)
(* shifted power spectrum in dB, one value per sample.                     *)
(***************************************************************************)
EXTENDS Integers, Sequences, FiniteSets, TLC

(* ---------------- bounds of the model ---------------- *)
NumSamples == 3      \* samples per scan-mode read (the code reads 2048)
MaxEvents == 2       \* detections produced in one behaviour
MantBits == 3        \* significant bits of a dB value
MaxChunk == 5        \* longest chunk handed to the analysis on its own
BufRange == 45       \* set_buffer_size is called with -BufRange..BufRange+20
MaxLogged == 2       \* log_event calls that get as far as the database
MaxSamples == 4      \* longest chunk handed to the demodulator on its own
VolRange == 60       \* set_volume is called with -0.60..1.60, in hundredths

(* ---------------- program constants ---------------- *)
ScanRate == 2400000
ManualRate == 960000
DefaultManualFreq == 144000000
DefaultBufferSize == 204800
DefaultThreshold == 10
DecimationFactor == 20
SpectrumUpdateInterval == 4
AudioRate == 48000
DemodSampleRate == 1920000
(* Powers handed to the demodulator are counted in units of 1e-11; the *)
(* epsilon added to the mean power before the logarithm is 1e-10.      *)
Epsilon == 10
(* filtfilt, which the IIR decimation runs, pads 27 samples on each side *)
(* and refuses an input that is not longer.                              *)
IirPadLen == 27

(* The volume 1.0, in hundredths (demodulator.py). *)
FullVolume == 100

None == "None"                    \* audio_stream / demodulator is None
NoDevice == [none |-> TRUE]       \* SdrDriver.sdr is None
NoEvent == [none |-> TRUE]        \* the analysis built no event
NoSamples == <<>>                 \* read_samples returned None
NoOp == [op |-> "none", arg |-> 0, src |-> "none"]
NoRet == [op |-> "none", val |-> FALSE, kind |-> "none", cause |-> "none"]
NoDetect == [rel |-> 0, age |-> -1, thr |-> 0]

(* The band list handed to the scanner at construction (bands.json).  A  *)
(* band's gain is "auto" or a value; parses tells whether float(gain)    *)
(* succeeds; missing_keys are the keys the dictionary lacks.             *)
Bands ==
  << [id |-> "b1", name |-> "Band 1", enabled |-> TRUE,
      start_freq_hz |-> 100000000, end_freq_hz |-> 100150000,
      step_size_hz |-> 100000, gain |-> [auto |-> TRUE, db |-> 0, parses |-> TRUE],
      missing_keys |-> {},
      dwell_time_ms |-> 250, threshold_db |-> 24],
     [id |-> "b2", name |-> "Band 2", enabled |-> FALSE,
      start_freq_hz |-> 200000000, end_freq_hz |-> 200000000,
      step_size_hz |-> 100000, gain |-> [auto |-> TRUE, db |-> 0, parses |-> TRUE],
      missing_keys |-> {},
      dwell_time_ms |-> 250, threshold_db |-> 24],
     [id |-> "b3", name |-> "Band 3", enabled |-> TRUE,
      start_freq_hz |-> 146500000, end_freq_hz |-> 146500000,
      step_size_hz |-> 25000, gain |-> [auto |-> FALSE, db |-> 20, parses |-> TRUE],
      missing_keys |-> {},
      dwell_time_ms |-> 0, threshold_db |-> 28] >>

(* A band whose gain is a string that is neither "auto" nor a number, and *)
(* a band without its threshold_db key.                                   *)
BadGainBand ==
  [id |-> "b4", name |-> "Band 4", enabled |-> TRUE,
   start_freq_hz |-> 433000000, end_freq_hz |-> 433000000,
   step_size_hz |-> 25000, gain |-> [auto |-> FALSE, db |-> 0, parses |-> FALSE],
   missing_keys |-> {}, dwell_time_ms |-> 0, threshold_db |-> 24]

MissingKeyBand ==
  [id |-> "b5", name |-> "Band 5", enabled |-> TRUE,
   start_freq_hz |-> 433000000, end_freq_hz |-> 433000000,
   step_size_hz |-> 25000, gain |-> [auto |-> TRUE, db |-> 0, parses |-> TRUE],
   missing_keys |-> {"threshold_db"}, dwell_time_ms |-> 0, threshold_db |-> 0]

(* Band lists with a sound band followed by a malformed one. *)
ConfigLists == {<<Bands[3], BadGainBand>>, <<Bands[3], MissingKeyBand>>}

(* Frequencies the UI asks for in manual mode; thresholds it sets. *)
ManualFreqs == {145500000}
Thresholds == {28}
(* dB values a bin of the power spectrum takes. *)
PowerLevels == {-16, 10}

(* ---------------- float arithmetic on dB values ---------------- *)
RECURSIVE Pow2(_)
Pow2(n) == IF n = 0 THEN 1 ELSE 2 * Pow2(n - 1)

Abs(x) == IF x < 0 THEN -x ELSE x

RECURSIVE Quantum(_, _)
(* The spacing of representable values around magnitude a. *)
Quantum(a, q) == IF a < Pow2(MantBits) * q THEN q ELSE Quantum(a, 2 * q)

(* Round to nearest representable value, ties to even. *)
FlRound(x) ==
  LET a == Abs(x)
      q == Quantum(a, 1)
      lo == (a \div q) * q
      rem == a - lo
      r == IF 2 * rem < q THEN lo
           ELSE IF 2 * rem > q THEN lo + q
           ELSE IF (lo \div q) % 2 = 0 THEN lo ELSE lo + q
  IN IF x < 0 THEN -r ELSE r

FlAdd(a, b) == FlRound(a + b)
FlSub(a, b) == FlRound(a - b)

(* ---------------- the analysis of one chunk ---------------- *)
Spectra(n) == [1..n -> PowerLevels]

(* The chunks the device delivers on a quiet band: no bin carries a signal. *)
QuietChunks(n) == {s \in Spectra(n) : \A i \in 1..n : s[i] = -16}

(* The chunks it delivers on a band in use: no bin or the last bin carries *)
(* a signal.                                                              *)
SignalChunks(n) ==
  {s \in Spectra(n) : \/ \A i \in 1..n : s[i] = -16
                      \/ \A i \in 1..n : (s[i] = 10) <=> (i = n)}

(* np.median: the middle of the sorted values, the mean of the two middle *)
(* ones when their number is even (halving a float is exact; the sums of  *)
(* two PowerLevels are even numbers of quanta).                           *)
Median(P) ==
  LET s == SortSeq(P, <)
      n == Len(P)
  IN IF n % 2 = 1 THEN s[(n + 1) \div 2]
     ELSE FlAdd(s[n \div 2], s[n \div 2 + 1]) \div 2

RECURSIVE SeqMax(_)
SeqMax(P) ==
  IF Len(P) = 1 THEN P[1]
  ELSE LET m == SeqMax(Tail(P)) IN IF P[1] >= m THEN P[1] ELSE m

(* np.argmax: the 0-based index of the first maximum. *)
ArgMax(P) == (CHOOSE i \in 1..Len(P) :
                 /\ P[i] = SeqMax(P)
                 /\ \A j \in 1..(i - 1) : P[j] # SeqMax(P)) - 1

(* The comparison with the threshold left out of the sum. *)
ExceedsNoise(peak_power, noise_floor, threshold_db) ==
  peak_power > noise_floor

(* peak_power > (noise_floor + threshold_db) *)
ExceedsThreshold(peak_power, noise_floor, threshold_db) ==
  peak_power > FlAdd(noise_floor, threshold_db)

(* The offset counted from the first bin instead of the middle one. *)
OffsetFromStart(peak_index, n, sample_rate_hz) ==
  peak_index * (sample_rate_hz \div n)

(* offset_from_center = (peak_index - len(samples) // 2) * freq_bin_width *)
(* with freq_bin_width = sample_rate_hz / len(samples)                    *)
OffsetFromCenter(peak_index, n, sample_rate_hz) ==
  (peak_index - n \div 2) * (sample_rate_hz \div n)

(* The detection event built from a chunk, or NoEvent.  now stands for   *)
(* datetime.now(): the number of the event in the order of production.  *)
DetectionEvent(samples, center_freq, threshold_db, band, now) ==
  LET noise_floor == Median(samples)
      peak_power == SeqMax(samples)
      peak_index == ArgMax(samples)
  IN IF ExceedsThreshold(peak_power, noise_floor, threshold_db)
     THEN [timestamp |-> now,
           frequency_hz |-> center_freq
                + OffsetFromCenter(peak_index, Len(samples), ScanRate),
           center_freq_hz |-> center_freq,
           power_db |-> peak_power,
           noise_floor_db |-> noise_floor,
           relative_power_db |-> FlSub(peak_power, noise_floor),
           band_id |-> band.id,
           band_name |-> band.name]
     ELSE NoEvent

(* The spectrum snapshot: (frequencies, power_spectrum). *)
SpectrumSnapshot(samples, center_freq) ==
  LET n == Len(samples)
      first == (0 - n) \div 2
  IN [frequencies |-> [i \in 1..n |->
                         center_freq + (first + i - 1) * (ScanRate \div n)],
      power |-> samples]

(* ---------------- state ---------------- *)
VARIABLES
  \* Scanner
  scan_paused, manual_mode, manual_freq, buffer_size, current_threshold,
  initialized, audio_stream, demodulator, result_queue, raw_data_queue,
  \* the worker thread: its position and locals
  wpc, band_idx, current_freq, samples,
  \* SdrDriver
  is_connected, sdr,
  \* the logger and the consumer
  log_calls, delivered,
  \* observation: the driver call or the write to the audio stream the
  \* worker made in the last step, and
  \* what has happened so far
  io, watch, started, nput, dmon, stopReads, thrAge, lastDetect, lastBufReq,
  \* the analysis applied on its own
  an,
  \* the band list the scanner holds
  bands,
  \* the UI thread: the call it is in, what it was last handed back, and
  \* what shutdown() has done
  ucall, ret, shut, shutLog,
  \* SdrDriver: the PPM correction, the device lock and who is inside the
  \* device; the worker's driver call in progress and its last result
  ppm_error, lastPpmReq, device_lock, inDevice, escaped, wcall, wret,
  \* MainWindow: the spectrum checkbox and the demodulation mode selected
  spectrum_enabled, demod_mode,
  \* observation: the analyses made since a snapshot was last enqueued;
  \* the chunks read in manual mode since a demodulation mode was selected,
  \* and the mode the last chunk was demodulated with
  anCount, modeAge, lastDemod,
  \* observation: the chunks read in manual mode, one after the other, with
  \* the device tuned to another frequency than manual_freq
  staleReads,
  \* observation: the frequencies tuned to in scan mode since the mode flag
  \* was found set
  lateTunes,
  \* observation: the driver calls of the scan cycle under way
  trace,
  \* Scanner: the gain set_gain was last handed; observation: whether
  \* set_gain has been called since the head of the band being swept
  current_gain, gainTouched,
  \* SignalLogger: the detections table, the largest id handed out, the
  \* mutex, each thread's call in progress and last result, and the number
  \* of log_event calls that returned True
  rows, seq, log_lock, lcall, lret, okCount,
  \* the demodulator applied on its own: the call and what came of it
  dem

scannerVars == <<scan_paused, manual_mode, manual_freq, buffer_size,
                 current_threshold, initialized, audio_stream, demodulator,
                 result_queue, raw_data_queue>>
workerVars == <<wpc, band_idx, current_freq, samples>>
driverVars == <<is_connected, sdr>>
obsVars == <<io, started, nput, dmon, stopReads, thrAge, lastDetect>>
configVars == <<bands>>
uiVars == <<ucall, shut, shutLog>>
lockVars == <<ppm_error, lastPpmReq, device_lock, inDevice, escaped, wcall,
              wret>>
selVars == <<spectrum_enabled, demod_mode>>
(* What the engine's control operations leave alone. *)
loggerVars == <<rows, seq, log_lock, lcall, lret, okCount>>
histVars == <<staleReads, lateTunes, trace, current_gain, gainTouched>>
monVars == <<anCount, modeAge, lastDemod, histVars>>
sideVars == <<selVars, monVars, loggerVars, dem>>
engineVars == <<scannerVars, workerVars, driverVars, log_calls, delivered,
                obsVars, watch, lastBufReq, an, configVars, uiVars, ret,
                lockVars>>
vars == <<engineVars, sideVars>>

(* The Event starting set. *)
InitScanPausedSet == TRUE

(* Scanner.__init__: the Event starts clear. *)
InitScanPaused == FALSE
(* Scanner.__init__: the default buffer size. *)
InitBufferSize == DefaultBufferSize

(* No driver call in progress. *)
Idle == [op |-> "none", pc |-> "idle", arg |-> 0]

(* The threads that call the logger; no call in progress; nothing handed *)
(* back yet.                                                             *)
LogThreads == {"t1", "t2"}
NoEventArg == [is_dict |-> FALSE, timestamp |-> "", frequency_hz |-> 0,
               has_rel |-> FALSE, relative_power_db |-> 0, power_db |-> 0,
               band_name |-> ""]
NoDemod == [none |-> TRUE]
NoDemodUse == [mode |-> "none", age |-> -1, sel |-> "none"]
NoStale == [n |-> 0, freq |-> 0]
LIdle == [op |-> "none", pc |-> "idle", limit |-> 0, event |-> NoEventArg,
          result |-> <<>>]
LNoRet == [op |-> "none", kind |-> "none", val |-> FALSE, rows |-> <<>>,
           n |-> 0, limit |-> 0, cause |-> "none"]

(* The state after Scanner.__init__ and SdrDriver.__init__; w is what the *)
(* observers follow in this behaviour, audio the outcomes of             *)
(* _init_audio_stream, lists the band lists handed over.                 *)
InitConfigured(w, audio, lists) ==
  /\ watch = w
  /\ bands \in lists
  /\ ucall = Idle
  /\ ret = NoRet
  /\ shut = "no"
  /\ shutLog = <<>>
  /\ ppm_error = 0
  /\ lastPpmReq = 0
  /\ device_lock = "free"
  /\ inDevice = {}
  /\ escaped = {}
  /\ wcall = Idle
  /\ wret = NoRet
  \* MainWindow._create_sidebar: BooleanVar(value=True), StringVar(value="NFM")
  /\ spectrum_enabled = TRUE
  /\ demod_mode = "NFM"
  /\ anCount = 0
  /\ modeAge = -1
  /\ lastDemod = NoDemodUse
  /\ staleReads = NoStale
  /\ lateTunes = 0
  /\ trace = <<>>
  \* Scanner.__init__: self._current_gain = 0.0 (0 means auto)
  /\ current_gain = 0
  /\ gainTouched = FALSE
  \* SignalLogger.__init__ over a new file: the table exists and is empty
  /\ rows = <<>>
  /\ seq = 0
  /\ log_lock = "free"
  /\ lcall = [t \in LogThreads |-> LIdle]
  /\ lret = [t \in LogThreads |-> LNoRet]
  /\ okCount = 0
  /\ dem = NoDemod
  /\ scan_paused = InitScanPaused
  /\ manual_mode = FALSE
  /\ manual_freq = DefaultManualFreq
  /\ buffer_size = InitBufferSize
  /\ current_threshold = DefaultThreshold
  /\ initialized = FALSE
  \* _init_audio_stream: the stream and the demodulator, or neither
  /\ \E ok \in audio :
        /\ audio_stream = (IF ok THEN "open" ELSE None)
        /\ demodulator = (IF ok THEN "ready" ELSE None)
  /\ result_queue = <<>>
  /\ raw_data_queue = <<>>
  /\ wpc = "run"
  /\ band_idx = 1
  /\ current_freq = 0
  /\ samples = NoSamples
  /\ is_connected = FALSE
  /\ sdr = NoDevice
  /\ log_calls = 0
  /\ delivered = <<>>
  /\ io = NoOp
  /\ started = FALSE
  /\ nput = 0
  /\ dmon = "idle"
  /\ stopReads = -1
  /\ thrAge = -1
  /\ lastDetect = NoDetect
  /\ lastBufReq = <<>>
  /\ an = NoEvent

InitWatching(w, audio) == InitConfigured(w, audio, {Bands})

Init == InitWatching("start", BOOLEAN)

(* ---------------- SdrDriver ---------------- *)
(* A freshly opened RtlSdr device. *)
FreshDevice == [center_freq |-> 0, sample_rate |-> 0,
                gain |-> [auto |-> TRUE, db |-> 0], freq_correction |-> 0]

(* A call from the UI thread hands r back; the results are followed in the *)
(* behaviours that watch them.                                            *)
Returns(r) ==
  /\ ret' = (IF watch = "ret" THEN r ELSE NoRet)
  /\ UNCHANGED <<configVars, uiVars, lockVars, sideVars>>

(* The guard every device operation starts with; hw is whether the *)
(* hardware carries the operation out (it raises otherwise).       *)
DeviceOk(hw) == is_connected /\ sdr # NoDevice /\ hw

(* SdrDriver.tune *)
DriverTune(freq_hz, hw) ==
  IF DeviceOk(hw) THEN [sdr EXCEPT !.center_freq = freq_hz] ELSE sdr

(* SdrDriver.set_sample_rate *)
DriverSetSampleRate(rate_hz, hw) ==
  IF DeviceOk(hw) THEN [sdr EXCEPT !.sample_rate = rate_hz] ELSE sdr

(* SdrDriver.set_gain: 0 selects automatic gain *)
DriverSetGain(gain, hw) ==
  IF DeviceOk(hw)
  THEN [sdr EXCEPT !.gain = IF gain = 0 THEN [auto |-> TRUE, db |-> 0]
                            ELSE [auto |-> FALSE, db |-> gain]]
  ELSE sdr

(* connect: the device without the PPM correction applied. *)
ConnectedDeviceNoPpm(ppm) == FreshDevice

(* connect: if self.ppm_error != 0: self.sdr.freq_correction = ppm_error *)
ConnectedDevice(ppm) ==
  IF ppm # 0 THEN [FreshDevice EXCEPT !.freq_correction = ppm]
  ELSE FreshDevice

(* SdrDriver.connect: RtlSdr() opens the device or raises ("no_device"); *)
(* a PPM correction other than 0 is applied, which the device may refuse *)
(* ("ppm_fails").                                                        *)
ConnectOutcomes == {"ok", "no_device", "ppm_fails"}

Connect ==
  /\ \E hw \in ConnectOutcomes :
       /\ hw = "ppm_fails" => ppm_error # 0
       /\ IF hw = "ok"
          THEN /\ sdr' = ConnectedDevice(ppm_error)
               /\ is_connected' = TRUE
          ELSE /\ sdr' = IF hw = "ppm_fails" THEN FreshDevice ELSE sdr
               /\ is_connected' = FALSE
       /\ Returns([op |-> "connect", val |-> (hw = "ok"), kind |-> "bool",
                    cause |-> hw])
  /\ io' = NoOp
  /\ dmon' = (IF dmon = "set" THEN "set" ELSE "idle")
  /\ UNCHANGED <<scannerVars, workerVars, log_calls, delivered, started,
                 nput, stopReads, thrAge, lastDetect, lastBufReq, an, watch>>

(* SdrDriver.disconnect *)
Disconnect ==
  /\ Returns(NoRet)
  /\ sdr' = NoDevice
  /\ is_connected' = FALSE
  /\ io' = NoOp
  /\ dmon' = "idle"
  /\ UNCHANGED <<scannerVars, workerVars, log_calls, delivered, started,
                 nput, stopReads, thrAge, lastDetect, lastBufReq, an, watch>>

(* ---------------- SdrDriver, step by step ---------------- *)
(* The driver's operations as two threads run them: the check of        *)
(* is_connected and sdr, the wait for _device_lock, the device access   *)
(* inside try, the return.                                              *)
Threads == {"worker", "ui"}
PpmValues == {-3, 0, 40}

(* What the worker calls (run, _scan_band, _manual_mode_loop) and what *)
(* the UI calls (Scanner.set_gain, _on_ppm_change).                     *)
WorkerOps == {"tune", "set_gain", "set_sample_rate", "read_samples"}
UiOps == {"set_gain", "tune", "set_ppm"}

OpArgs(op) ==
  CASE op = "tune" -> ManualFreqs
    [] op = "set_gain" -> {0, 20}
    [] op = "set_sample_rate" -> {ScanRate}
    [] op = "read_samples" -> {NumSamples}
    [] op = "set_ppm" -> PpmValues

scannerSide == <<scannerVars, workerVars, log_calls, delivered, obsVars,
                 watch, lastBufReq, an, configVars, shut, shutLog, sideVars>>

CallOf(t) == IF t = "ui" THEN ucall ELSE wcall

SetCall(t, c) ==
  IF t = "ui" THEN ucall' = c /\ wcall' = wcall
  ELSE wcall' = c /\ ucall' = ucall

SetRet(t, r) ==
  IF t = "ui" THEN ret' = r /\ wret' = wret
  ELSE wret' = r /\ ret' = ret

(* What an operation hands back: a boolean, or samples / None. *)
RetOf(op, ok, cause) ==
  [op |-> op, val |-> ok,
   kind |-> IF op = "read_samples" THEN (IF ok THEN "samples" ELSE "none")
            ELSE IF op = "disconnect" THEN "none" ELSE "bool",
   cause |-> cause]

(* tune with its device access outside the try. *)
HandledButTune(op) == op # "tune"

(* Every device access is inside try ... except Exception. *)
Handled(op) == TRUE

(* An exception at the device access: caught and turned into a failure *)
(* value, or leaving the operation.                                    *)
Raise(t, op, cause) ==
  /\ SetRet(t, IF Handled(op) THEN RetOf(op, FALSE, cause)
               ELSE [op |-> op, val |-> FALSE, kind |-> "exception",
                     cause |-> cause])
  /\ escaped' = IF Handled(op) THEN escaped ELSE escaped \cup {op}

(* The device after a successful access. *)
DriverEffect(op, a) ==
  CASE op = "tune" -> [sdr EXCEPT !.center_freq = a]
    [] op = "set_sample_rate" -> [sdr EXCEPT !.sample_rate = a]
    [] op = "set_gain" ->
         [sdr EXCEPT !.gain = IF a = 0 THEN [auto |-> TRUE, db |-> 0]
                              ELSE [auto |-> FALSE, db |-> a]]
    [] op = "set_ppm" -> [sdr EXCEPT !.freq_correction = a]
    [] op = "read_samples" -> sdr

(* The call and its check: if not self.is_connected or self.sdr is None. *)
(* set_ppm_correction stores the value first and reports success when    *)
(* there is no device.                                                   *)
D_Begin(t, op, a) ==
  /\ CallOf(t) = Idle
  /\ IF op = "set_ppm"
     THEN ppm_error' = a /\ lastPpmReq' = a
     ELSE UNCHANGED <<ppm_error, lastPpmReq>>
  /\ IF ~is_connected \/ sdr = NoDevice
     THEN /\ SetRet(t, RetOf(op, op = "set_ppm", "not_connected"))
          /\ UNCHANGED <<ucall, wcall>>
     ELSE /\ SetCall(t, [op |-> op, pc |-> "acquire", arg |-> a])
          /\ SetRet(t, NoRet)
  /\ UNCHANGED <<scannerSide, driverVars, device_lock, inDevice, escaped>>

(* with self._device_lock: the thread gets the lock when it is free and *)
(* starts the device access; self.sdr is read here, and is None if a    *)
(* disconnect came after the check.                                     *)
D_Acquire(t) ==
  /\ CallOf(t).pc = "acquire"
  /\ device_lock = "free"
  /\ IF sdr = NoDevice
     THEN /\ Raise(t, CallOf(t).op, "no_device")
          /\ SetCall(t, Idle)
          /\ UNCHANGED <<device_lock, inDevice>>
     ELSE /\ device_lock' = t
          /\ inDevice' = inDevice \cup {t}
          /\ SetCall(t, [CallOf(t) EXCEPT !.pc = "access"])
          /\ UNCHANGED <<ret, wret, escaped>>
  /\ UNCHANGED <<scannerSide, driverVars, ppm_error, lastPpmReq>>

(* The device access ends: it succeeded or it raised; the lock is *)
(* released and the operation returns.                            *)
D_Finish(t) ==
  /\ CallOf(t).pc = "access"
  /\ \E hw \in BOOLEAN :
       IF hw
       THEN /\ sdr' = IF sdr = NoDevice THEN sdr
                      ELSE DriverEffect(CallOf(t).op, CallOf(t).arg)
            /\ SetRet(t, RetOf(CallOf(t).op, TRUE, "ok"))
            /\ escaped' = escaped
       ELSE /\ sdr' = sdr
            /\ Raise(t, CallOf(t).op, "hw")
  /\ device_lock' = "free"
  /\ inDevice' = inDevice \ {t}
  /\ SetCall(t, Idle)
  /\ UNCHANGED <<scannerSide, is_connected, ppm_error, lastPpmReq>>

WorkerCall == \E op \in WorkerOps : \E a \in OpArgs(op) : D_Begin("worker", op, a)
UiCall == \E op \in UiOps : \E a \in OpArgs(op) : D_Begin("ui", op, a)

(* SdrDriver.disconnect, no lock taken: self.sdr.close() starts ... *)
D_DisconnectBegin ==
  /\ ucall = Idle
  /\ IF sdr # NoDevice
     THEN /\ ucall' = [op |-> "disconnect", pc |-> "close", arg |-> 0]
          /\ inDevice' = inDevice \cup {"ui"}
          /\ ret' = NoRet
          /\ UNCHANGED <<sdr, is_connected>>
     ELSE /\ sdr' = NoDevice
          /\ is_connected' = FALSE
          /\ ret' = RetOf("disconnect", FALSE, "not_connected")
          /\ UNCHANGED <<ucall, inDevice>>
  /\ UNCHANGED <<scannerSide, ppm_error, lastPpmReq, device_lock, escaped,
                 wcall, wret>>

(* ... and ends (or raises, which is caught); finally: sdr = None. *)
D_DisconnectEnd ==
  /\ ucall = [op |-> "disconnect", pc |-> "close", arg |-> 0]
  /\ sdr' = NoDevice
  /\ is_connected' = FALSE
  /\ inDevice' = inDevice \ {"ui"}
  /\ ucall' = Idle
  /\ \E hw \in BOOLEAN :
       ret' = RetOf("disconnect", FALSE, IF hw THEN "ok" ELSE "hw")
  /\ UNCHANGED <<scannerSide, ppm_error, lastPpmReq, device_lock, escaped,
                 wcall, wret>>

(* ---------------- queues ---------------- *)
(* A put at the head of the queue. *)
QueuePutFront(q, item) == <<item>> \o q

(* Queue.put on the unbounded result queue *)
QueuePut(q, item) == Append(q, item)

(* A snapshot put on the spectrum queue whatever it holds. *)
SpectrumPutAlways(q, item) == Append(q, item)

(* if self.raw_data_queue.empty(): put_nowait(...), on the queue of *)
(* capacity 1; the snapshot is dropped otherwise.                   *)
SpectrumPut(q, item) == IF q = <<>> THEN <<item>> ELSE q

(* ---------------- what the worker's driver calls amount to ------------ *)
Min(a, b) == IF a < b THEN a ELSE b

(* Manual start-up: after set_manual_mode(f) ("set") and a successful       *)
(* start_scan() that finds the worker polling ("armed"), tune(f) ("tuned") *)
(* and set_sample_rate(960000) ("done") are due before any read_samples    *)
(* and before any band tune ("bad").  Any other call on the control        *)
(* surface ends the observation ("idle").                                  *)
DMonAfter(d, o) ==
  IF d \in {"armed", "tuned"}
  THEN IF o.op = "read_samples" THEN "bad"
       ELSE IF o.op = "tune" /\ o.src = "scan" THEN "bad"
       ELSE IF d = "armed" /\ o.op = "tune" /\ o.arg = manual_freq
            THEN "tuned"
       ELSE IF d = "tuned" /\ o.op = "set_sample_rate" /\ o.arg = ManualRate
            THEN "done"
       ELSE d
  ELSE d

(* _manual_mode_loop calls demodulate(samples, sample_rate=960000,       *)
(* squelch_threshold_db=...) without a mode: the parameter's default, NFM. *)
ManualDemodMode == "NFM"

(* The chunks read one after the other, under one value of manual_freq, *)
(* from a device the worker has tuned to another frequency.             *)
StaleAfter(st) ==
  IF sdr.center_freq = manual_freq \/ sdr.center_freq = 0
  THEN [n |-> 0, freq |-> manual_freq]
  ELSE IF st.freq = manual_freq
       THEN [n |-> Min(st.n + 1, 2), freq |-> manual_freq]
       ELSE [n |-> 1, freq |-> manual_freq]

(* Every worker step: the observers follow the driver call it made. *)
WorkerObs ==
  /\ dmon' = IF watch = "start" THEN DMonAfter(dmon, io') ELSE dmon
  /\ stopReads' = IF watch = "stop" /\ stopReads >= 0
                     /\ io'.op = "read_samples"
                  THEN Min(stopReads + 1, 2) ELSE stopReads
  /\ thrAge' = IF thrAge >= 0 /\ io'.op = "read_samples" /\ io'.src = "scan"
                  /\ samples' # NoSamples
               THEN Min(thrAge + 1, 2) ELSE thrAge
  /\ ret' = NoRet
  /\ anCount' = IF watch = "spectrum" /\ wpc = "analyze"
                THEN (IF raw_data_queue' # raw_data_queue THEN 0
                      ELSE Min(anCount + 1, SpectrumUpdateInterval))
                ELSE anCount
  /\ modeAge' = IF modeAge >= 0 /\ io'.op = "read_samples"
                    /\ io'.src = "manual" /\ wpc' = "manual_demod"
                 THEN Min(modeAge + 1, 2) ELSE modeAge
  /\ lastDemod' = IF watch = "demod" /\ wpc = "manual_demod" /\ modeAge >= 0
                   THEN [mode |-> ManualDemodMode, age |-> modeAge,
                         sel |-> demod_mode]
                   ELSE lastDemod
  /\ staleReads' = IF watch = "freq" /\ wpc = "manual_read"
                       /\ wpc' = "manual_demod"
                    THEN StaleAfter(staleReads) ELSE staleReads
  /\ lateTunes' = IF watch # "mode" THEN lateTunes
                   ELSE IF ~manual_mode \/ wpc = "manual_loop" THEN 0
                   ELSE IF wpc = "tune" /\ wpc' = "dwell"
                        THEN Min(lateTunes + 1, 2)
                   ELSE lateTunes
  /\ trace' = IF watch # "sweep" THEN trace
               ELSE IF wpc = "scan_loop" THEN <<>>
               ELSE IF io'.op # "none" THEN Append(trace, io')
               ELSE trace
  /\ current_gain' = current_gain
  /\ gainTouched' = IF wpc = "scan_band" THEN FALSE ELSE gainTouched
  /\ UNCHANGED <<started, watch, log_calls, delivered, lastBufReq, an,
                 configVars, uiVars, lockVars, selVars, loggerVars, dem>>

(* ---------------- the worker: Scanner.run ---------------- *)
(* run: the loop head *)
RunDispatch ==
  IF ~scan_paused THEN "poll_sleep"
  ELSE IF manual_mode THEN "manual_loop" ELSE "scan_loop"

W_Run ==
  /\ wpc = "run"
  /\ wpc' = RunDispatch
  /\ io' = NoOp
  /\ UNCHANGED <<scannerVars, band_idx, current_freq, samples, driverVars,
                 nput, lastDetect>>
  /\ WorkerObs

(* run: time.sleep(0.1); continue *)
W_PollSleep ==
  /\ wpc = "poll_sleep"
  /\ wpc' = "run"
  /\ io' = NoOp
  /\ UNCHANGED <<scannerVars, band_idx, current_freq, samples, driverVars,
                 nput, lastDetect>>
  /\ WorkerObs

(* _scan_mode_loop: hardware initialisation on the first active cycle *)
W_ScanInit ==
  /\ wpc = "scan_loop"
  /\ IF is_connected /\ ~initialized
     THEN \E hw \in BOOLEAN :
            /\ sdr' = DriverSetSampleRate(ScanRate, hw)
            /\ io' = [op |-> "set_sample_rate", arg |-> ScanRate,
                      src |-> "scan"]
            /\ initialized' = DeviceOk(hw)
            /\ wpc' = IF DeviceOk(hw) THEN "band_head" ELSE "run"
     ELSE /\ io' = NoOp
          /\ wpc' = "band_head"
          /\ UNCHANGED <<sdr, initialized>>
  /\ band_idx' = 1
  /\ UNCHANGED <<scan_paused, manual_mode, manual_freq, buffer_size,
                 current_threshold, audio_stream, demodulator, result_queue,
                 raw_data_queue, current_freq, samples, is_connected,
                 nput, lastDetect>>
  /\ WorkerObs

(* _scan_mode_loop: for band in self.bands *)
BandHeadNext ==
  IF band_idx > Len(bands) THEN "run"
  ELSE IF ~scan_paused THEN "run"
  ELSE IF manual_mode THEN "run"
  ELSE IF ~bands[band_idx].enabled THEN "band_head"
  ELSE "scan_band"

W_BandHead ==
  /\ wpc = "band_head"
  /\ wpc' = BandHeadNext
  /\ band_idx' = IF BandHeadNext = "band_head" THEN band_idx + 1
                 ELSE IF BandHeadNext = "run" THEN 1 ELSE band_idx
  /\ io' = NoOp
  /\ UNCHANGED <<scannerVars, current_freq, samples, driverVars,
                 nput, lastDetect>>
  /\ WorkerObs

(* _scan_band: the band's gain, then current_freq = start_freq *)
BandGain(band) == IF band.gain.auto THEN 0 ELSE band.gain.db

(* _scan_band: band["start_freq_hz"] ... band["threshold_db"] raise         *)
(* KeyError on a missing key and float(gain) raises ValueError on a string *)
(* that is no number; nothing between there and run() catches either.      *)
ScanBandRaises(band) ==
  band.missing_keys # {} \/ (~band.gain.auto /\ ~band.gain.parses)

W_ScanBand ==
  /\ wpc = "scan_band"
  /\ IF ScanBandRaises(bands[band_idx])
     THEN \* the exception leaves run(): the thread ends
          /\ wpc' = "dead"
          /\ io' = NoOp
          /\ UNCHANGED <<sdr, current_freq>>
     ELSE /\ \E hw \in BOOLEAN :
               sdr' = DriverSetGain(BandGain(bands[band_idx]), hw)
          /\ io' = [op |-> "set_gain", arg |-> BandGain(bands[band_idx]),
                    src |-> "scan"]
          /\ current_freq' = bands[band_idx].start_freq_hz
          /\ wpc' = "freq_head"
  /\ UNCHANGED <<scannerVars, band_idx, samples, is_connected,
                 nput, lastDetect>>
  /\ WorkerObs

(* A frequency gone through again. *)
StepOnSpot(freq, band) == freq

(* _scan_band: current_freq += step_size, after a failed tune, a failed *)
(* read and an analysis alike.                                          *)
StepOn(freq, band) == freq + band.step_size_hz

(* The sweep of a band stopping short of end_freq. *)
BandLoopGuardExclusive ==
  current_freq < bands[band_idx].end_freq_hz /\ scan_paused

(* The sweep of a band going on without a look at the run flag. *)
BandLoopGuardNoPause == current_freq <= bands[band_idx].end_freq_hz

(* _scan_band: while current_freq <= end_freq and self.scan_paused.is_set() *)
BandLoopGuard == current_freq <= bands[band_idx].end_freq_hz /\ scan_paused

W_FreqHead ==
  /\ wpc = "freq_head"
  /\ IF BandLoopGuard
     THEN wpc' = "tune" /\ band_idx' = band_idx
     ELSE wpc' = "band_head" /\ band_idx' = band_idx + 1
  /\ io' = NoOp
  /\ UNCHANGED <<scannerVars, current_freq, samples, driverVars,
                 nput, lastDetect>>
  /\ WorkerObs

(* _scan_band: self.driver.tune(current_freq) *)
W_Tune ==
  /\ wpc = "tune"
  /\ \E hw \in BOOLEAN :
       /\ sdr' = DriverTune(current_freq, hw)
       /\ IF DeviceOk(hw)
          THEN wpc' = "dwell" /\ current_freq' = current_freq
          ELSE /\ wpc' = "freq_head"
               /\ current_freq' = StepOn(current_freq, bands[band_idx])
  /\ io' = [op |-> "tune", arg |-> current_freq, src |-> "scan"]
  /\ UNCHANGED <<scannerVars, band_idx, samples, is_connected,
                 nput, lastDetect>>
  /\ WorkerObs

(* _scan_band: time.sleep(dwell_time_ms / 1000.0) *)
W_Dwell ==
  /\ wpc = "dwell"
  /\ wpc' = "read"
  /\ io' = NoOp
  /\ UNCHANGED <<scannerVars, band_idx, current_freq, samples, driverVars,
                 nput, lastDetect>>
  /\ WorkerObs

(* _scan_band: samples = self.driver.read_samples(self.num_samples) *)
W_ReadFrom(chunks) ==
  /\ wpc = "read"
  /\ \E hw \in BOOLEAN :
       IF DeviceOk(hw)
       THEN /\ \E s \in chunks :
                 /\ \/ nput < MaxEvents
                    \/ DetectionEvent(s, current_freq,
                          bands[band_idx].threshold_db, bands[band_idx],
                          nput + 1) = NoEvent
                 /\ samples' = s
            /\ wpc' = "analyze"
            /\ current_freq' = current_freq
       ELSE /\ samples' = NoSamples
            /\ wpc' = "freq_head"
            /\ current_freq' = StepOn(current_freq, bands[band_idx])
  /\ io' = [op |-> "read_samples", arg |-> NumSamples, src |-> "scan"]
  /\ UNCHANGED <<scannerVars, band_idx, driverVars, nput, lastDetect>>
  /\ WorkerObs

W_Read == W_ReadFrom(SignalChunks(NumSamples))
W_ReadQuiet == W_ReadFrom(QuietChunks(NumSamples))

(* _scan_band: self._analyze_samples(...); current_freq += step_size *)
W_Analyze ==
  /\ wpc = "analyze"
  /\ LET band == bands[band_idx]
         event == DetectionEvent(samples, current_freq, band.threshold_db,
                                 band, nput + 1)
     IN /\ raw_data_queue' =
             SpectrumPut(raw_data_queue,
                         SpectrumSnapshot(samples, current_freq))
        /\ IF event # NoEvent
           THEN /\ result_queue' = QueuePut(result_queue, event)
                /\ nput' = nput + 1
                /\ lastDetect' =
                     IF thrAge >= 0
                     THEN [rel |-> event.relative_power_db, age |-> thrAge,
                           thr |-> current_threshold]
                     ELSE lastDetect
           ELSE UNCHANGED <<result_queue, nput, lastDetect>>
        /\ current_freq' = StepOn(current_freq, band)
  /\ samples' = NoSamples
  /\ wpc' = "freq_head"
  /\ io' = NoOp
  /\ UNCHANGED <<scan_paused, manual_mode, manual_freq, buffer_size,
                 current_threshold, initialized, audio_stream, demodulator,
                 band_idx, driverVars>>
  /\ WorkerObs

(* ---------------- the worker: manual mode ---------------- *)
(* _manual_mode_loop: audio stream or demodulator not available *)
W_ManualEnter ==
  /\ wpc = "manual_loop"
  /\ IF audio_stream = None \/ demodulator = None
     THEN manual_mode' = FALSE /\ wpc' = "run"
     ELSE manual_mode' = manual_mode /\ wpc' = "manual_tune"
  /\ io' = NoOp
  /\ UNCHANGED <<scan_paused, manual_freq, buffer_size, current_threshold,
                 initialized, audio_stream, demodulator, result_queue,
                 raw_data_queue, band_idx, current_freq, samples, driverVars,
                 nput, lastDetect>>
  /\ WorkerObs

(* _manual_mode_loop: self.driver.tune(self.manual_freq) *)
W_ManualTune ==
  /\ wpc = "manual_tune"
  /\ \E hw \in BOOLEAN :
       /\ sdr' = DriverTune(manual_freq, hw)
       /\ wpc' = IF DeviceOk(hw) THEN "manual_rate" ELSE "run"
  /\ io' = [op |-> "tune", arg |-> manual_freq, src |-> "manual"]
  /\ UNCHANGED <<scannerVars, band_idx, current_freq, samples, is_connected,
                 nput, lastDetect>>
  /\ WorkerObs

(* _manual_mode_loop: self.driver.set_sample_rate(960000) *)
W_ManualRate ==
  /\ wpc = "manual_rate"
  /\ \E hw \in BOOLEAN :
       /\ sdr' = DriverSetSampleRate(ManualRate, hw)
       /\ wpc' = IF DeviceOk(hw) THEN "manual_head" ELSE "run"
  /\ io' = [op |-> "set_sample_rate", arg |-> ManualRate, src |-> "manual"]
  /\ UNCHANGED <<scannerVars, band_idx, current_freq, samples, is_connected,
                 nput, lastDetect>>
  /\ WorkerObs

(* _manual_mode_loop: while self.scan_paused.is_set() and self.manual_mode *)
ManualLoopGuard == scan_paused /\ manual_mode

W_ManualHead ==
  /\ wpc = "manual_head"
  /\ wpc' = IF ManualLoopGuard THEN "manual_read" ELSE "run"
  /\ io' = NoOp
  /\ UNCHANGED <<scannerVars, band_idx, current_freq, samples, driverVars,
                 nput, lastDetect>>
  /\ WorkerObs

(* _manual_mode_loop: samples = self.driver.read_samples(self.buffer_size) *)
W_ManualRead ==
  /\ wpc = "manual_read"
  /\ \E hw \in BOOLEAN :
       wpc' = IF DeviceOk(hw) THEN "manual_demod" ELSE "manual_head"
  /\ io' = [op |-> "read_samples", arg |-> buffer_size, src |-> "manual"]
  /\ UNCHANGED <<scannerVars, band_idx, current_freq, samples, driverVars,
                 nput, lastDetect>>
  /\ WorkerObs

(* _manual_mode_loop: demodulate the chunk and, if len(audio_data) > 0,  *)
(* self.audio_stream.write(audio_data); no audio, or an exception of    *)
(* demodulate, leaves the write out, and try/except catches what the    *)
(* write raises.                                                        *)
W_ManualDemod ==
  /\ wpc = "manual_demod"
  /\ wpc' = "manual_head"
  /\ \E audio \in BOOLEAN :
       io' = IF audio THEN [op |-> "write", arg |-> 0, src |-> "audio"]
             ELSE NoOp
  /\ UNCHANGED <<scannerVars, band_idx, current_freq, samples, driverVars,
                 nput, lastDetect>>
  /\ WorkerObs

(* ---------------- the control surface ---------------- *)
(* start_scan without the look at the driver. *)
StartScanOkUnconnected == ~scan_paused

(* Scanner.start_scan *)
StartScanOk == ~scan_paused /\ is_connected

StartScan ==
  /\ Returns([op |-> "start_scan", val |-> StartScanOk, kind |-> "bool",
                 cause |-> "none"])
  /\ IF StartScanOk
     THEN /\ scan_paused' = TRUE
          /\ started' = TRUE
          /\ stopReads' = -1
          /\ dmon' = (IF dmon = "set" /\ wpc \in {"run", "poll_sleep"}
                      THEN "armed" ELSE "idle")
     ELSE UNCHANGED <<scan_paused, started, stopReads, dmon>>
  /\ io' = NoOp
  /\ UNCHANGED <<manual_mode, manual_freq, buffer_size, current_threshold,
                 initialized, audio_stream, demodulator, result_queue,
                 raw_data_queue, workerVars, driverVars, log_calls, delivered,
                 nput, thrAge, lastDetect, lastBufReq, an, watch>>

(* Scanner.stop_scan *)
StopScan ==
  /\ Returns(NoRet)
  /\ IF scan_paused
     THEN /\ scan_paused' = FALSE
          /\ stopReads' = (IF watch = "stop" THEN 0 ELSE stopReads)
          /\ dmon' = "idle"
     ELSE UNCHANGED <<scan_paused, stopReads, dmon>>
  /\ io' = NoOp
  /\ UNCHANGED <<manual_mode, manual_freq, buffer_size, current_threshold,
                 initialized, audio_stream, demodulator, result_queue,
                 raw_data_queue, workerVars, driverVars, log_calls, delivered,
                 started, nput, thrAge, lastDetect, lastBufReq, an, watch>>

(* Scanner.set_manual_mode *)
SetManualModeTo(frequency_hz) ==
  /\ Returns(NoRet)
  /\ manual_mode' = TRUE
  /\ manual_freq' = frequency_hz
  /\ io' = NoOp
  /\ dmon' = (IF watch = "start" THEN "set" ELSE dmon)
  /\ UNCHANGED <<scan_paused, buffer_size, current_threshold, initialized,
                 audio_stream, demodulator, result_queue, raw_data_queue,
                 workerVars, driverVars, log_calls, delivered, started, nput,
                 stopReads, thrAge, lastDetect, lastBufReq, an, watch>>

SetManualMode == \E f \in ManualFreqs : SetManualModeTo(f)

(* Scanner.exit_manual_mode *)
ExitManualMode ==
  /\ Returns(NoRet)
  /\ manual_mode' = FALSE
  /\ io' = NoOp
  /\ dmon' = "idle"
  /\ UNCHANGED <<scan_paused, manual_freq, buffer_size, current_threshold,
                 initialized, audio_stream, demodulator, result_queue,
                 raw_data_queue, workerVars, driverVars, log_calls, delivered,
                 started, nput, stopReads, thrAge, lastDetect, lastBufReq, an, watch>>

(* Scanner.scanning: return not self.scan_paused.is_set() *)
ScanningValue == ~scan_paused

Scanning ==
  /\ Returns([op |-> "scanning", val |-> ScanningValue, kind |-> "bool",
              cause |-> "none"])
  /\ io' = NoOp
  /\ UNCHANGED <<scannerVars, workerVars, driverVars, log_calls, delivered,
                 started, nput, dmon, stopReads, thrAge, lastDetect,
                 lastBufReq, an, watch>>

(* The gains the UI's slider asks for: automatic, and a value in dB. *)
GainRequests == {0, 35}

(* Scanner.set_gain: self._current_gain = gain under the lock, then *)
(* return self.driver.set_gain(gain)                                *)
SetGain ==
  /\ \E gain \in GainRequests : \E hw \in BOOLEAN :
       /\ current_gain' = gain
       /\ sdr' = DriverSetGain(gain, hw)
       /\ ret' = IF watch = "gain"
                 THEN [op |-> "set_gain", val |-> DeviceOk(hw),
                       kind |-> "bool", cause |-> "none"]
                 ELSE NoRet
  /\ gainTouched' = TRUE
  /\ io' = NoOp
  /\ UNCHANGED <<scannerVars, workerVars, is_connected, log_calls, delivered,
                 started, nput, dmon, stopReads, thrAge, lastDetect,
                 lastBufReq, an, watch, configVars, uiVars, lockVars,
                 selVars, anCount, modeAge, lastDemod, staleReads, lateTunes,
                 trace, loggerVars, dem>>

(* Scanner.get_current_gain *)
GetCurrentGain ==
  /\ ret' = IF watch = "gain"
            THEN [op |-> "get_current_gain", val |-> current_gain,
                  kind |-> "float", cause |-> "none"]
            ELSE NoRet
  /\ io' = NoOp
  /\ UNCHANGED <<scannerVars, workerVars, driverVars, log_calls, delivered,
                 started, nput, dmon, stopReads, thrAge, lastDetect,
                 lastBufReq, an, watch, configVars, uiVars, lockVars,
                 sideVars>>

(* Scanner.toggle_mode *)
ToggleMode ==
  \E is_manual \in BOOLEAN :
    IF is_manual THEN SetManualModeTo(manual_freq) ELSE ExitManualMode

(* Scanner.set_manual_freq *)
SetManualFreq ==
  /\ Returns(NoRet)
  /\ \E f \in ManualFreqs \cup {DefaultManualFreq} : manual_freq' = f
  /\ io' = NoOp
  /\ dmon' = "idle"
  /\ UNCHANGED <<scan_paused, manual_mode, buffer_size, current_threshold,
                 initialized, audio_stream, demodulator, result_queue,
                 raw_data_queue, workerVars, driverVars, log_calls, delivered,
                 started, nput, stopReads, thrAge, lastDetect, lastBufReq, an, watch>>

(* Scanner.set_threshold *)
SetThreshold ==
  /\ Returns(NoRet)
  /\ \E x \in Thresholds : current_threshold' = x
  /\ thrAge' = 0
  /\ lastDetect' = NoDetect
  /\ io' = NoOp
  /\ UNCHANGED <<scan_paused, manual_mode, manual_freq, buffer_size,
                 initialized, audio_stream, demodulator, result_queue,
                 raw_data_queue, workerVars, driverVars, log_calls, delivered,
                 started, nput, dmon, stopReads, lastBufReq, an, watch>>

(* The size stored as given. *)
SafeSizeUnrounded(size_int) == size_int

(* Scanner.set_buffer_size: safe_size = size_int - (size_int % 20) *)
SafeSize(size_int) == size_int - (size_int % DecimationFactor)

SetBufferSize ==
  /\ Returns(NoRet)
  /\ \E n \in (0 - BufRange)..(BufRange + DecimationFactor) :
       /\ buffer_size' = SafeSize(n)
       /\ lastBufReq' = <<n>>
  /\ io' = NoOp
  /\ UNCHANGED <<scan_paused, manual_mode, manual_freq, current_threshold,
                 initialized, audio_stream, demodulator, result_queue,
                 raw_data_queue, workerVars, driverVars, log_calls, delivered,
                 started, nput, dmon, stopReads, thrAge, lastDetect, an, watch>>

(* ---------------- Scanner.shutdown ---------------- *)
(* The driver disconnected before the audio stream is closed. *)
ShutdownOrderDisconnectFirst ==
  <<"exit_manual_mode", "clear_run_flag", "disconnect", "close_audio">>

(* The steps in the order shutdown() takes them, the sleep of 0.3 s lying *)
(* between the second and the third.                                      *)
ShutdownOrder ==
  <<"exit_manual_mode", "clear_run_flag", "close_audio", "disconnect">>

(* Whether shutdown() has something to do at a step. *)
ShutdownActs(step) ==
  CASE step = "exit_manual_mode" -> manual_mode
    [] step = "clear_run_flag" -> TRUE
    [] step = "close_audio" -> audio_stream # None
    [] step = "disconnect" -> is_connected

(* One step of shutdown(), run by the UI thread; the worker runs on in *)
(* between.                                                            *)
Shutdown ==
  \E k \in 1..Len(ShutdownOrder) :
    LET step == ShutdownOrder[k]
        acts == ShutdownActs(step)
    IN /\ IF k = 1 THEN ucall = Idle
          ELSE ucall = [op |-> "shutdown", pc |-> "step", arg |-> k]
       /\ ucall' = IF k = Len(ShutdownOrder) THEN Idle
                   ELSE [op |-> "shutdown", pc |-> "step", arg |-> k + 1]
       /\ shut' = IF k = Len(ShutdownOrder) THEN "down" ELSE shut
       /\ shutLog' = (IF k = 1 THEN <<>> ELSE shutLog)
                       \o (IF acts THEN <<step>> ELSE <<>>)
       /\ manual_mode' = IF step = "exit_manual_mode" THEN FALSE
                         ELSE manual_mode
       /\ scan_paused' = IF step = "clear_run_flag" THEN FALSE
                         ELSE scan_paused
       /\ audio_stream' = IF step = "close_audio" /\ acts THEN "closed"
                          ELSE audio_stream
       /\ sdr' = IF step = "disconnect" /\ acts THEN NoDevice ELSE sdr
       /\ is_connected' = IF step = "disconnect" THEN FALSE ELSE is_connected
       /\ io' = NoOp
       /\ ret' = NoRet
       /\ dmon' = "idle"
       /\ UNCHANGED <<manual_freq, buffer_size, current_threshold,
                      initialized, demodulator, result_queue, raw_data_queue,
                      workerVars, log_calls, delivered, started, nput,
                      stopReads, thrAge, lastDetect, lastBufReq, an, watch,
                      configVars, lockVars, sideVars>>

(* ---------------- the consumer: MainWindow.poll_queue ---------------- *)
(* The events a drain of the result queue hands over, in order. *)
Drained(q) == q

PollQueue ==
  /\ Returns(NoRet)
  /\ delivered' = delivered \o [i \in 1..Len(Drained(result_queue)) |->
                                  Drained(result_queue)[i].timestamp]
  /\ result_queue' = <<>>
  /\ raw_data_queue' = <<>>
  /\ io' = NoOp
  /\ UNCHANGED <<scan_paused, manual_mode, manual_freq, buffer_size,
                 current_threshold, initialized, audio_stream, demodulator,
                 workerVars, driverVars, log_calls, started, nput, dmon,
                 stopReads, thrAge, lastDetect, lastBufReq, an, watch>>

(* MainWindow._on_spectrum_toggle: the checkbox has flipped its variable; *)
(* the handler calls scanner.set_spectrum_enabled, which Scanner does not *)
(* have: AttributeError ends the handler and the scanner is as it was.    *)
OnSpectrumToggle ==
  /\ spectrum_enabled' = ~spectrum_enabled
  /\ ret' = (IF watch = "ret"
             THEN [op |-> "set_spectrum_enabled", val |-> FALSE,
                   kind |-> "exception", cause |-> "AttributeError"]
             ELSE NoRet)
  /\ io' = NoOp
  /\ UNCHANGED <<scannerVars, workerVars, driverVars, log_calls, delivered,
                 started, nput, dmon, stopReads, thrAge, lastDetect,
                 lastBufReq, an, watch, configVars, uiVars, lockVars,
                 demod_mode, monVars, loggerVars, dem>>

(* MainWindow._on_demod_mode_change: a radio button has set the variable; *)
(* the handler calls scanner.set_demod_mode, which Scanner does not have: *)
(* AttributeError ends the handler and the scanner is as it was.          *)
OnDemodModeChange ==
  /\ \E mode \in {"NFM", "WFM", "AM"} : demod_mode' = mode
  /\ modeAge' = (IF watch = "demod" THEN 0 ELSE modeAge)
  /\ lastDemod' = NoDemodUse
  /\ ret' = (IF watch = "ret"
             THEN [op |-> "set_demod_mode", val |-> FALSE,
                   kind |-> "exception", cause |-> "AttributeError"]
             ELSE NoRet)
  /\ io' = NoOp
  /\ UNCHANGED <<scannerVars, workerVars, driverVars, log_calls, delivered,
                 started, nput, dmon, stopReads, thrAge, lastDetect,
                 lastBufReq, an, watch, configVars, uiVars, lockVars,
                 spectrum_enabled, anCount, histVars, loggerVars, dem>>

(* ---------------- SignalLogger, step by step ---------------- *)
(* The events log_event is handed: two detections, one of them without  *)
(* relative_power_db, an event with an empty timestamp, one with        *)
(* frequency 0, and a value that is no dictionary.                      *)
LogEvents ==
  { [is_dict |-> TRUE, timestamp |-> "T1", frequency_hz |-> 100100000,
     has_rel |-> TRUE, relative_power_db |-> 26, power_db |-> 10,
     band_name |-> "Band 1"],
    [is_dict |-> TRUE, timestamp |-> "T2", frequency_hz |-> 146500000,
     has_rel |-> FALSE, relative_power_db |-> 0, power_db |-> 10,
     band_name |-> "Band 3"],
    [is_dict |-> TRUE, timestamp |-> "", frequency_hz |-> 100100000,
     has_rel |-> TRUE, relative_power_db |-> 26, power_db |-> 10,
     band_name |-> "Band 1"],
    [is_dict |-> TRUE, timestamp |-> "T1", frequency_hz |-> 0,
     has_rel |-> TRUE, relative_power_db |-> 26, power_db |-> 10,
     band_name |-> "Band 1"],
    NoEventArg }

(* The limits get_recent_detections is called with. *)
Limits == (0 - 1)..(MaxLogged + 1)

(* if not timestamp or frequency_hz == 0 *)
InvalidEvent(e) == e.timestamp = "" \/ e.frequency_hz = 0

(* The row made of the event's power_db whatever else it carries. *)
RowOfPowerDb(e, id) ==
  [id |-> id, timestamp |-> e.timestamp, frequency_hz |-> e.frequency_hz,
   power_db |-> e.power_db, band_name |-> e.band_name]

(* The row INSERT makes of an event, under the id AUTOINCREMENT gives:  *)
(* power_db = event_dict.get("relative_power_db",                       *)
(*                           event_dict.get("power_db", 0.0))           *)
RowOf(e, id) ==
  [id |-> id, timestamp |-> e.timestamp, frequency_hz |-> e.frequency_hz,
   power_db |-> IF e.has_rel THEN e.relative_power_db ELSE e.power_db,
   band_name |-> e.band_name]

(* The rows in ascending order of id. *)
OrderByIdAsc(table) == SortSeq(table, LAMBDA a, b : a.id < b.id)

(* SELECT ... ORDER BY id DESC *)
OrderByIdDesc(table) == SortSeq(table, LAMBDA a, b : a.id > b.id)

(* LIMIT ?: the first n rows; a negative n sets no bound. *)
Limit(s, n) == IF n < 0 THEN s ELSE SubSeq(s, 1, Min(n, Len(s)))

(* get_recent_detections: what the SELECT fetches. *)
RecentRows(table, n) == Limit(OrderByIdDesc(table), n)

(* except clauses that catch sqlite3.Error only. *)
CatchesSqliteOnly(op, exc) == exc = "sqlite3.Error"

(* log_event: except sqlite3.Error, except Exception; the other three *)
(* operations: except sqlite3.Error.                                  *)
Catches(op, exc) == op = "log_event" \/ exc = "sqlite3.Error"

(* What an operation hands back when it has caught an exception. *)
LFailure(op, a, cause) ==
  [op |-> op, kind |-> "value", val |-> FALSE, rows |-> <<>>, n |-> 0,
   limit |-> a, cause |-> cause]

(* An exception in thread t's call: the with block, if entered, releases *)
(* the mutex; the exception is caught and the failure value returned, or *)
(* it leaves the operation.                                              *)
LRaise(t, exc, cause) ==
  LET c == lcall[t]
  IN /\ lret' = [lret EXCEPT ![t] =
                   IF Catches(c.op, exc) THEN LFailure(c.op, c.limit, cause)
                   ELSE [LFailure(c.op, c.limit, cause)
                           EXCEPT !.kind = "exception"]]
     /\ lcall' = [lcall EXCEPT ![t] = LIdle]
     /\ log_lock' = IF log_lock = t THEN "free" ELSE log_lock

(* The mutex taken whatever its state. *)
LockAvailableAlways == TRUE

(* with self._lock: the mutex is free. *)
LockAvailable == log_lock = "free"

(* The call: log_event reads the event's fields and validates them before *)
(* it takes the mutex; the other operations go straight for the mutex.    *)
L_Begin(t, op, e, n) ==
  /\ lcall[t] = LIdle
  /\ op = "log_event" =>
       Len(rows) + Cardinality({u \in LogThreads : lcall[u].op = "log_event"})
         < MaxLogged
  /\ LET c == [op |-> op, pc |-> "acquire", limit |-> n, event |-> e,
               result |-> <<>>]
     IN IF op = "log_event" /\ ~e.is_dict
        THEN \* event_dict.get raises AttributeError
             /\ lret' = [lret EXCEPT ![t] =
                  IF Catches(op, "AttributeError")
                  THEN LFailure(op, n, "not_a_dict")
                  ELSE [LFailure(op, n, "not_a_dict")
                          EXCEPT !.kind = "exception"]]
             /\ UNCHANGED lcall
        ELSE IF op = "log_event" /\ InvalidEvent(e)
        THEN /\ lret' = [lret EXCEPT ![t] = LFailure(op, n, "invalid")]
             /\ UNCHANGED lcall
        ELSE /\ lcall' = [lcall EXCEPT ![t] = c]
             /\ lret' = [lret EXCEPT ![t] = LNoRet]
  /\ UNCHANGED <<rows, seq, log_lock, okCount>>
  /\ UNCHANGED <<engineVars, selVars, monVars, dem>>

L_Call ==
  \E t \in LogThreads :
    \/ \E e \in LogEvents : L_Begin(t, "log_event", e, 0)
    \/ \E n \in Limits : L_Begin(t, "recent", NoEventArg, n)
    \/ L_Begin(t, "count", NoEventArg, 0)
    \/ L_Begin(t, "clear", NoEventArg, 0)

(* with self._lock *)
L_Acquire ==
  \E t \in LogThreads :
    /\ lcall[t].pc = "acquire"
    /\ LockAvailable
    /\ log_lock' = t
    /\ lcall' = [lcall EXCEPT ![t].pc = "connect"]
    /\ UNCHANGED <<rows, seq, lret, okCount>>
    /\ UNCHANGED <<engineVars, selVars, monVars, dem>>

(* sqlite3.connect(...); cursor(): the file opens or sqlite3.Error *)
L_Connect ==
  \E t \in LogThreads : \E db \in BOOLEAN :
    /\ lcall[t].pc = "connect"
    /\ IF db
       THEN /\ lcall' = [lcall EXCEPT ![t].pc = "execute"]
            /\ UNCHANGED <<lret, log_lock>>
       ELSE LRaise(t, "sqlite3.Error", "connect")
    /\ UNCHANGED <<rows, seq, okCount>>
    /\ UNCHANGED <<engineVars, selVars, monVars, dem>>

(* cursor.execute: INSERT and DELETE open a transaction on the connection *)
(* and change nothing in the file yet; the SELECTs read the table, the    *)
(* connection is closed and the result returned.                          *)
L_Execute ==
  \E t \in LogThreads : \E db \in BOOLEAN :
    LET c == lcall[t]
    IN /\ c.pc = "execute"
       /\ IF ~db THEN LRaise(t, "sqlite3.Error", "execute")
          ELSE IF c.op = "log_event"
          THEN /\ lcall' = [lcall EXCEPT ![t].pc = "commit"]
               /\ UNCHANGED <<lret, log_lock>>
          ELSE IF c.op = "clear"
          THEN /\ lcall' = [lcall EXCEPT ![t].pc = "vacuum"]
               /\ UNCHANGED <<lret, log_lock>>
          ELSE /\ lret' = [lret EXCEPT ![t] =
                    [op |-> c.op, kind |-> "value", val |-> FALSE,
                     rows |-> IF c.op = "recent"
                              THEN RecentRows(rows, c.limit) ELSE <<>>,
                     n |-> IF c.op = "count" THEN Len(rows) ELSE 0,
                     limit |-> c.limit, cause |-> "ok"]]
               /\ lcall' = [lcall EXCEPT ![t] = LIdle]
               /\ log_lock' = IF log_lock = t THEN "free" ELSE log_lock
       /\ UNCHANGED <<rows, seq, okCount>>
       /\ UNCHANGED <<engineVars, selVars, monVars, dem>>

(* clear_all_detections: cursor.execute("VACUUM") after the DELETE, which *)
(* has opened a transaction: sqlite3 refuses ("cannot VACUUM from within  *)
(* a transaction"); the connection is dropped with its DELETE undone.     *)
L_Vacuum ==
  \E t \in LogThreads :
    /\ lcall[t].pc = "vacuum"
    /\ LRaise(t, "sqlite3.Error", "vacuum")
    /\ UNCHANGED <<rows, seq, okCount>>
    /\ UNCHANGED <<engineVars, selVars, monVars, dem>>

(* log_event: conn.commit() stores the row or raises, leaving the table *)
(* as it was; conn.close(); the with block ends; return True.           *)
L_Commit ==
  \E t \in LogThreads : \E db \in BOOLEAN :
    /\ lcall[t].pc = "commit"
    /\ IF db
       THEN /\ rows' = Append(rows, RowOf(lcall[t].event, seq + 1))
            /\ seq' = seq + 1
            /\ okCount' = okCount + 1
            /\ lret' = [lret EXCEPT ![t] =
                 [op |-> "log_event", kind |-> "value", val |-> TRUE,
                  rows |-> <<>>, n |-> 0, limit |-> 0, cause |-> "ok"]]
            /\ lcall' = [lcall EXCEPT ![t] = LIdle]
            /\ log_lock' = IF log_lock = t THEN "free" ELSE log_lock
       ELSE /\ LRaise(t, "sqlite3.Error", "commit")
            /\ UNCHANGED <<rows, seq, okCount>>
    /\ UNCHANGED <<engineVars, selVars, monVars, dem>>

(* ---------------- FMDemodulator ---------------- *)
(* A chunk of IQ samples is represented by its length, its mean power    *)
(* mean(|s|^2) in units of 1e-11, and whether its phase and its envelope *)
(* vary from sample to sample (a chunk of zeros does not).               *)
DemodChunks ==
  {c \in [n : 0..MaxSamples, power : {0, 5, 50, 95, 200},
          modulated : BOOLEAN] :
     /\ c.n = 0 => c.power = 0
     /\ c.power = 0 => ~c.modulated}

DemodModes == {"NFM", "WFM", "AM"}

(* sample_rate as passed to demodulate: None (0 here), a rate below the *)
(* audio rate, and rates of decimation 2 and 3.                         *)
DemodRates == {0, 24000, 96000, 144000}

(* Squelch thresholds in dB. *)
SquelchLevels == {-100, -90}

RECURSIVE Pow10(_)
Pow10(k) == IF k = 0 THEN 1 ELSE 10 * Pow10(k - 1)

(* The power, in units of 1e-11, of a level in dB that is a multiple of *)
(* 10: 10 * log10(x * 1e-11) = db.                                      *)
FromDb(db) == Pow10((db + 110) \div 10)

(* power_db = 10 * np.log10(np.mean(np.abs(samples)**2) + 1e-10);  *)
(* if power_db < squelch_threshold_db                              *)
Squelched(power, squelch_threshold_db) ==
  power + Epsilon < FromDb(squelch_threshold_db)

(* The decimation of construction, whatever rate is passed. *)
DecimationAtConstruction(sample_rate) == DemodSampleRate \div AudioRate

(* current_rate = sample_rate if sample_rate else self.sample_rate; *)
(* decimation = int(current_rate / self.audio_rate)                 *)
Decimation(sample_rate) ==
  (IF sample_rate # 0 THEN sample_rate ELSE DemodSampleRate) \div AudioRate

(* scipy.signal.decimate(x, q): every q-th sample of the filtered input. *)
DecimatedLen(m, q) == (m + q - 1) \div q

Silence(len) == [kind |-> "audio", len |-> len, zero |-> TRUE, exc |-> "none"]
Raised(exc) == [kind |-> "raise", len |-> 0, zero |-> FALSE, exc |-> exc]

(* _demodulate_nfm / _demodulate_wfm / _demodulate_am after the length  *)
(* check: the outcomes of the squelch branch and of the demodulation.   *)
(* The discriminator of the FM modes leaves len(samples) - 1 values;    *)
(* what decimate does with no value at all is left open.                *)
DemodulateMode(c, sample_rate, squelch_threshold_db, mode) ==
  LET decimation == Decimation(sample_rate)
      m == IF mode = "AM" THEN c.n ELSE c.n - 1
      ftype == IF mode = "WFM" THEN "iir" ELSE "fir"
  IN IF Squelched(c.power, squelch_threshold_db)
     THEN IF decimation = 0
          THEN {Raised("ZeroDivisionError")}   \* len(samples) // decimation
          ELSE {Silence(c.n \div decimation)}
     ELSE IF decimation = 0 THEN {Raised("ZeroDivisionError")}
     ELSE IF ftype = "iir" /\ m <= IirPadLen THEN {Raised("ValueError")}
     ELSE IF m = 0 THEN {Raised("ValueError"), Silence(0)}
     ELSE {[kind |-> "audio", len |-> DecimatedLen(m, decimation),
            zero |-> ~c.modulated, exc |-> "none"]}

(* FMDemodulator.demodulate: an empty chunk gives an empty output; the *)
(* mode's method does the rest; nothing is caught.                     *)
Demodulate(c, sample_rate, squelch_threshold_db, mode) ==
  IF c.n = 0 THEN {Silence(0)}
  ELSE DemodulateMode(c, sample_rate, squelch_threshold_db, mode)

DemodulateCall ==
  /\ \E c \in DemodChunks : \E rate \in DemodRates :
       \E sq \in SquelchLevels : \E mode \in DemodModes :
         \E r \in Demodulate(c, rate, sq, mode) :
           dem' = [samples |-> c, sample_rate |-> rate,
                   squelch_threshold_db |-> sq, mode |-> mode, result |-> r]
  /\ UNCHANGED <<engineVars, selVars, monVars, loggerVars>>

(* Volumes in hundredths: the request of the volume slider is vol / 100.0, *)
(* and requests below 0.0 and above 1.0 are made as well.                 *)
VolumeArgs == (0 - VolRange)..(FullVolume + VolRange)

(* A request stored as it comes. *)
SetVolumeUnclamped(volume) == volume

(* FMDemodulator.set_volume: self.volume = max(0.0, min(1.0, volume)) *)
SetVolume(volume) ==
  LET capped == IF volume < FullVolume THEN volume ELSE FullVolume
  IN IF capped > 0 THEN capped ELSE 0

SetVolumeCall ==
  /\ \E v \in VolumeArgs :
       dem' = [op |-> "set_volume", arg |-> v, volume |-> SetVolume(v)]
  /\ UNCHANGED <<engineVars, selVars, monVars, loggerVars>>

(* ---------------- the analysis on its own ---------------- *)
(* Chunk lengths whose bin width sample_rate / N is a whole number of Hz. *)
ChunkLens == {n \in 1..MaxChunk : ScanRate % n = 0}

(* Thresholds the analysis is handed. *)
AnalysisThresholds == {-2, 10, 24}

AnalyzeChunk ==
  /\ Returns(NoRet)
  /\ \E n \in ChunkLens : \E s \in Spectra(n) :
       \E t \in AnalysisThresholds : \E b \in {1, 3} :
          an' = [samples |-> s, center_freq |-> Bands[b].start_freq_hz,
                 event |-> DetectionEvent(s, Bands[b].start_freq_hz, t,
                                          Bands[b], 1)]
  /\ UNCHANGED <<scannerVars, workerVars, driverVars, log_calls, delivered,
                 obsVars, lastBufReq, watch>>

(* ---------------- specifications ---------------- *)
ScanWorker(read) ==
  \/ W_Run \/ W_PollSleep \/ W_ScanInit \/ W_BandHead \/ W_ScanBand
  \/ W_FreqHead \/ W_Tune \/ W_Dwell \/ read \/ W_Analyze

ManualWorker ==
  \/ W_ManualEnter \/ W_ManualTune \/ W_ManualRate \/ W_ManualHead
  \/ W_ManualRead \/ W_ManualDemod

Worker == ScanWorker(W_ReadQuiet) \/ ManualWorker

Control ==
  \/ Connect \/ Disconnect \/ StartScan \/ StopScan \/ SetManualMode
  \/ ExitManualMode \/ ToggleMode \/ SetManualFreq \/ PollQueue

Next == Worker \/ Control

(* The engine on quiet bands, with its whole control surface. *)
Spec == Init /\ [][Next]_vars

(* The same, the results handed back to the UI being followed. *)
SpecControl == InitWatching("ret", BOOLEAN) /\ [][Next]_vars

(* The engine with the calls that start it, stop it and set its mode, the *)
(* observers on stop_scan, the worker thread being scheduled again and    *)
(* again.                                                                 *)
NextFair ==
  \/ Worker
  \/ Connect \/ Disconnect \/ StartScan \/ StopScan \/ SetManualMode
  \/ ExitManualMode

FairSpec ==
  InitWatching("stop", BOOLEAN) /\ [][NextFair]_vars /\ WF_vars(Worker)

(* The engine sweeping bands in use, and its consumer. *)
NextDetect ==
  \/ ScanWorker(W_Read)
  \/ Connect \/ StartScan \/ StopScan \/ PollQueue

SpecDetect == InitWatching("none", {TRUE}) /\ [][NextDetect]_vars

(* The engine sweeping bands in use, the detection threshold being set *)
(* while it runs.                                                      *)
NextThreshold ==
  \/ ScanWorker(W_Read)
  \/ Connect \/ StartScan \/ StopScan \/ SetThreshold

SpecThreshold == InitWatching("threshold", {TRUE}) /\ [][NextThreshold]_vars

(* The engine with the calls of the UI that start, stop and close it; the *)
(* UI thread makes one call at a time.                                    *)
NextShutdown ==
  \/ Worker
  \/ ucall = Idle /\ (Connect \/ StartScan \/ StopScan \/ SetManualMode)
  \/ Shutdown

SpecShutdown == InitWatching("none", BOOLEAN) /\ [][NextShutdown]_vars

(* The engine sweeping a band list with a malformed band. *)
NextConfig ==
  \/ ScanWorker(W_ReadQuiet)
  \/ Connect \/ StartScan \/ StopScan \/ PollQueue

SpecConfig ==
  InitConfigured("none", {TRUE}, ConfigLists) /\ [][NextConfig]_vars

(* The driver under the calls of the worker and of the UI thread. *)
NextDriver ==
  \/ WorkerCall \/ D_Acquire("worker") \/ D_Finish("worker")
  \/ UiCall \/ D_Acquire("ui") \/ D_Finish("ui")
  \/ ucall = Idle /\ Connect
  \/ D_DisconnectBegin \/ D_DisconnectEnd

SpecDriver == InitWatching("ret", {TRUE}) /\ [][NextDriver]_vars

(* The engine on quiet bands, its consumer and the spectrum checkbox. *)
NextSpectrum ==
  \/ ScanWorker(W_ReadQuiet)
  \/ Connect \/ StartScan \/ StopScan \/ PollQueue \/ OnSpectrumToggle

SpecSpectrum == InitWatching("spectrum", {TRUE}) /\ [][NextSpectrum]_vars

(* The engine with the demodulation mode being selected while it runs. *)
NextManual ==
  \/ Worker
  \/ Connect \/ StartScan \/ StopScan \/ SetManualMode \/ OnDemodModeChange

SpecManual == InitWatching("demod", {TRUE}) /\ [][NextManual]_vars

(* Manual streaming while the frequency is set. *)
NextFreq ==
  Worker \/ Connect \/ StartScan \/ StopScan \/ SetManualMode
    \/ SetManualFreq

SpecFreq == InitWatching("freq", {TRUE}) /\ [][NextFreq]_vars

(* A sweep while manual mode is selected. *)
NextMode == Worker \/ Connect \/ StartScan \/ StopScan \/ SetManualMode

SpecMode == InitWatching("mode", {TRUE}) /\ [][NextMode]_vars

(* Every driver call of the worker's step is carried out. *)
DriverSucceeds ==
  /\ wpc = "scan_loop" => wpc' = "band_head"
  /\ wpc = "scan_band" =>
        sdr' = DriverSetGain(BandGain(bands[band_idx]), TRUE)
  /\ wpc = "tune" => wpc' = "dwell"
  /\ wpc = "read" => wpc' = "analyze"

(* Scan cycles nobody interrupts: the driver is connected and the scan *)
(* started while the engine is paused, and every driver call succeeds. *)
NextSweep ==
  \/ ScanWorker(W_Read) /\ DriverSucceeds
  \/ (Connect \/ StartScan) /\ ~scan_paused

SpecSweep ==
  /\ InitWatching("sweep", {TRUE})
  /\ [][NextSweep]_vars
  /\ WF_vars(ScanWorker(W_Read) /\ DriverSucceeds)

(* The engine started and stopped, the scanning property being read. *)
NextScanning ==
  ScanWorker(W_ReadQuiet) \/ Connect \/ StartScan \/ StopScan \/ Scanning

SpecScanning == InitWatching("ret", {TRUE}) /\ [][NextScanning]_vars

(* Bands swept while the gain is set and asked for. *)
NextGain ==
  \/ ScanWorker(W_ReadQuiet)
  \/ Connect \/ StartScan \/ StopScan \/ SetGain \/ GetCurrentGain

SpecGain == InitWatching("gain", {TRUE}) /\ [][NextGain]_vars

(* The logger under the calls of two threads. *)
NextLogger ==
  L_Call \/ L_Acquire \/ L_Connect \/ L_Execute \/ L_Vacuum \/ L_Commit

SpecLogger == InitWatching("none", {TRUE}) /\ [][NextLogger]_vars

(* The demodulator applied to chunks, rates, squelch levels and modes. *)
SpecDemod == InitWatching("none", {TRUE}) /\ [][DemodulateCall]_vars

(* The volume of the demodulator set again and again. *)
SpecVolume == InitWatching("none", {TRUE}) /\ [][SetVolumeCall]_vars

(* The analysis applied to chunks of every length. *)
SpecAnalyze == InitWatching("none", {TRUE}) /\ [][AnalyzeChunk]_vars

(* The buffer size set again and again. *)
SpecParams == InitWatching("none", {TRUE}) /\ [][SetBufferSize]_vars

(* ======================= the claims ======================= *)
(* The worker is in the paused polling loop of run. *)
PollLoop == wpc \in {"run", "poll_sleep"} /\ ~scan_paused

(* stop_scan has cleared the run flag and no start_scan has followed. *)
Stopped == stopReads >= 0

BandById(id) == CHOOSE b \in {Bands[i] : i \in 1..Len(Bands)} : b.id = id

(* C1: the engine starts paused and does no I/O while paused: the worker  *)
(* makes no driver call before the first successful start_scan(), and no  *)
(* step it takes from the paused polling loop makes one.                  *)
Thm_C1 ==
  /\ [](io.op # "none" => started)
  /\ [][PollLoop => io'.op = "none"]_vars

(* The worker polls again after a sweep that made driver calls. *)
Wit_C1 == started /\ initialized /\ wpc = "poll_sleep" /\ ~scan_paused

(* C2: after set_manual_mode(f) and a successful start_scan(), tune(f) and *)
(* set_sample_rate(960000) reach the driver before any read_samples, and   *)
(* no band tune of the scan mode comes in between.                         *)
CE_C2 == dmon # "bad"

(* C3: once stop_scan() has cleared the run flag and no start_scan()     *)
(* follows, the worker makes at most one further read_samples call, gets *)
(* to the paused polling loop and stays in it.                           *)
Thm_C3 ==
  /\ [](stopReads <= 1)
  /\ [][(Stopped /\ PollLoop) => (PollLoop' \/ ~Stopped')]_vars
  /\ (Stopped ~> (PollLoop \/ ~Stopped))

(* The worker read the chunk in flight after the stop and polls. *)
Wit_C3 == stopReads = 1 /\ PollLoop

(* C4: every event put on the result queue is also handed to the logger: *)
(* as many log_event calls as events enqueued.                           *)
CE_C4 == nput = log_calls

(* C5 as stated: every event on the result queue has relative_power_db = *)
(* power_db - noise_floor_db and relative_power_db > threshold_db of its *)
(* band.                                                                 *)
CE_C5 ==
  \A i \in 1..Len(result_queue) :
    LET e == result_queue[i]
    IN /\ e.relative_power_db = FlSub(e.power_db, e.noise_floor_db)
       /\ e.relative_power_db > BandById(e.band_id).threshold_db

(* C5 as amended: every event on the result queue has relative_power_db = *)
(* power_db - noise_floor_db (the float difference) and relative_power_db *)
(* >= threshold_db of its band, and its peak power exceeds noise floor    *)
(* plus threshold (the float sum).                                        *)
Thm_C5 ==
  \A i \in 1..Len(result_queue) :
    LET e == result_queue[i]
        t == BandById(e.band_id).threshold_db
    IN /\ e.relative_power_db = FlRound(e.power_db - e.noise_floor_db)
       /\ e.relative_power_db >= t
       /\ e.power_db > FlRound(e.noise_floor_db + t)

(* An event whose relative power equals its band's threshold is queued. *)
Wit_C5 ==
  \E i \in 1..Len(result_queue) :
    result_queue[i].relative_power_db
      = BandById(result_queue[i].band_id).threshold_db

(* C6: after set_threshold(x) has returned, an event from a chunk read   *)
(* later than the chunk in flight has relative_power_db > x.             *)
CE_C6 == lastDetect.age >= 2 => lastDetect.rel > lastDetect.thr

(* C7: the frequency of an event is center + (k - N div 2) * rate / N for *)
(* the index k of a bin carrying the peak, and lies within rate / 2 of    *)
(* the center, for every chunk length N.                                  *)
Thm_C7 ==
  (an # NoEvent /\ an.event # NoEvent) =>
    LET e == an.event
        n == Len(an.samples)
    IN /\ e.center_freq_hz = an.center_freq
       /\ \E k \in 0..(n - 1) :
            /\ an.samples[k + 1] = e.power_db
            /\ (e.frequency_hz - e.center_freq_hz) * n
                 = (k - n \div 2) * ScanRate
       /\ 2 * Abs(e.frequency_hz - e.center_freq_hz) <= ScanRate

(* An event half a sample rate below the center: the first bin of a *)
(* chunk of even length.                                            *)
Wit_C7 ==
  /\ an # NoEvent
  /\ an.event # NoEvent
  /\ 2 * (an.event.center_freq_hz - an.event.frequency_hz) = ScanRate

(* C8: the consumer gets the events in the order the worker produced    *)
(* them: what was delivered, followed by what is queued, is what was    *)
(* produced, the k-th event carrying the k-th timestamp.                *)
Thm_C8 ==
  delivered \o [i \in 1..Len(result_queue) |-> result_queue[i].timestamp]
    = [i \in 1..nput |-> i]

(* Events have been delivered and a later one is queued. *)
Wit_C8 == Len(delivered) >= 1 /\ Len(result_queue) >= 1

(* C9: the stored buffer size is a multiple of 20, and after             *)
(* set_buffer_size(n) it is the largest multiple of 20 not above n.      *)
Thm_C9 ==
  /\ buffer_size % DecimationFactor = 0
  /\ lastBufReq # <<>> =>
       /\ buffer_size <= lastBufReq[1]
       /\ lastBufReq[1] - buffer_size < DecimationFactor

(* set_buffer_size(45) stored 40. *)
Wit_C9 == lastBufReq = <<45>> /\ buffer_size = 40

(* C10: the stored buffer size is never negative, whatever integers *)
(* set_buffer_size is called with.                                  *)
CE_C10 == buffer_size >= 0

(* C11: once shutdown() has returned the worker is terminated: the run *)
(* flag is never set again with the worker making a driver call.       *)
CE_C11 == ~(shut = "down" /\ scan_paused /\ io.op # "none")

(* The place of a step in the shutdown sequence the specification gives. *)
ShutdownRank(step) ==
  CASE step = "exit_manual_mode" -> 1
    [] step = "clear_run_flag" -> 2
    [] step = "close_audio" -> 3
    [] step = "disconnect" -> 4

(* C12: shutdown() exits manual mode, then clears the run flag, then     *)
(* closes the audio sink, then disconnects the driver, always clearing   *)
(* the run flag; when it returns the mode flag is Scan, the run flag is  *)
(* clear and the driver is disconnected.                                 *)
Thm_C12 ==
  /\ [](\A i, j \in 1..Len(shutLog) :
          i < j => ShutdownRank(shutLog[i]) < ShutdownRank(shutLog[j]))
  /\ [][(ucall.op = "shutdown" /\ ucall' = Idle) =>
          /\ \E i \in 1..Len(shutLog') : shutLog'[i] = "clear_run_flag"
          /\ ~manual_mode' /\ ~scan_paused' /\ ~is_connected']_vars

(* shutdown() has returned having had all four steps to take. *)
Wit_C12 ==
  /\ shut = "down" /\ ucall = Idle
  /\ shutLog = <<"exit_manual_mode", "clear_run_flag", "close_audio",
                 "disconnect">>

(* C13: no exception exits the worker, whatever the band list holds: the *)
(* worker thread never ends.                                             *)
CE_C13 == wpc # "dead"

(* C14: no scanner mutator waits on a resource the worker holds: set_gain *)
(* is never waiting for the device lock while the worker holds it inside  *)
(* read_samples.                                                          *)
CE_C14 ==
  ~(/\ ucall.op = "set_gain" /\ ucall.pc = "acquire"
    /\ device_lock = "worker"
    /\ wcall.op = "read_samples" /\ wcall.pc = "access")

(* C15: no two threads are inside device-touching operations at once. *)
CE_C15 == Cardinality(inDevice) <= 1

(* C16: no driver operation raises to its caller: tune, set_gain,        *)
(* set_sample_rate, set_ppm and connect hand back a boolean,             *)
(* read_samples samples or None, disconnect returns normally, under any  *)
(* hardware failure and any interleaving.                                *)
Thm_C16 ==
  /\ escaped = {}
  /\ \A r \in {ret, wret} :
       /\ r.kind # "exception"
       /\ r.op \in {"tune", "set_gain", "set_sample_rate", "set_ppm",
                    "connect"} => r.kind = "bool"
       /\ r.op = "read_samples" =>
            r.kind = (IF r.val THEN "samples" ELSE "none")
       /\ r.op = "disconnect" => r.kind = "none"

(* A read_samples of the worker passed the check, found the device gone *)
(* under it (a disconnect in between) and returned None.                *)
Wit_C16 ==
  wret.op = "read_samples" /\ wret.cause = "no_device" /\ wret.kind = "none"

(* C17: set_ppm while disconnected stores the value, reports success and *)
(* touches no device; right after a successful connect() the device's    *)
(* frequency correction is the last PPM asked for.                       *)
Thm_C17 ==
  /\ []((ret.op = "connect" /\ ret.val) =>
          (is_connected /\ sdr # NoDevice
             /\ sdr.freq_correction = lastPpmReq))
  /\ []((ret.op = "set_ppm" /\ ret.cause = "not_connected") =>
          (ret.val /\ ppm_error = lastPpmReq))
  /\ [][(ret'.op = "set_ppm" /\ ret'.cause = "not_connected") =>
          /\ "ui" \notin inDevice'
          /\ (sdr # NoDevice /\ sdr' # NoDevice) =>
                sdr'.freq_correction = sdr.freq_correction]_vars

(* connect() has just succeeded after set_ppm(40) and the device carries *)
(* the correction.                                                       *)
Wit_C17 ==
  /\ ret.op = "connect" /\ ret.val /\ lastPpmReq = 40
  /\ sdr # NoDevice /\ sdr.freq_correction = 40

(* C18: a tune or set_sample_rate that fails on the way into manual *)
(* streaming leaves the engine Paused: the run flag is clear when the *)
(* worker is back in run.                                             *)
CE_C18 ==
  [][(wpc \in {"manual_tune", "manual_rate"} /\ wpc' = "run")
       => ~scan_paused']_vars

(* C19: start_scan() returns true exactly when the engine is Paused and  *)
(* the driver connected, and then sets the run flag; otherwise it leaves *)
(* the run flag as it is; it never changes the mode flag.                *)
Thm_C19 ==
  [][ret'.op = "start_scan" =>
       /\ ret'.val = (~scan_paused /\ is_connected)
       /\ ret'.val => scan_paused'
       /\ ~ret'.val => scan_paused' = scan_paused
       /\ manual_mode' = manual_mode]_vars

(* start_scan() was refused with the driver connected: the engine was *)
(* active, in manual mode, and stays so.                              *)
Wit_C19 ==
  /\ ret.op = "start_scan" /\ ~ret.val
  /\ is_connected /\ scan_paused /\ manual_mode

(* C20: the spectrum queue never holds more than one snapshot; the     *)
(* worker at the analysis of a chunk can always go on, and with the    *)
(* queue occupied it leaves the queue as it is and finishes the chunk. *)
Thm_C20 ==
  /\ [](Len(raw_data_queue) <= 1)
  /\ [](wpc = "analyze" => ENABLED W_Analyze)
  /\ [][(wpc = "analyze" /\ wpc' # wpc /\ raw_data_queue # <<>>) =>
          (raw_data_queue' = raw_data_queue /\ wpc' = "freq_head")]_vars

(* Two events are queued behind one snapshot: the chunk of the second *)
(* event was analysed with the spectrum queue occupied.               *)
Wit_C20 ==
  Len(result_queue) = 2 /\ Len(raw_data_queue) = 1 /\ wpc = "freq_head"

(* C21: a snapshot is put on the spectrum queue only by an analysis that *)
(* finds spectrum publication enabled and the queue empty and is the     *)
(* 4th since the last one that enqueued; every other analysis, and every *)
(* analysis while the spectrum is disabled, enqueues nothing.            *)
CE_C21 ==
  [][(wpc = "analyze" /\ raw_data_queue' # raw_data_queue) =>
       /\ spectrum_enabled
       /\ raw_data_queue = <<>>
       /\ anCount >= SpectrumUpdateInterval - 1]_vars

(* C22: the snapshot the consumer pulls from the spectrum queue is the   *)
(* newest the worker has: no analysis has gone by since it was enqueued. *)
CE_C22 ==
  [][(raw_data_queue # <<>> /\ raw_data_queue' = <<>>) => anCount = 0]_vars

(* Thread t is inside a with self._lock block of the logger. *)
InLoggerSection(t) == lcall[t].pc \in {"connect", "execute", "vacuum", "commit"}

(* The step is the return of thread t's call of op. *)
LReturns(t, op) ==
  /\ lret'[t].op = op
  /\ lcall'[t] = LIdle
  /\ lcall[t].op = op \/ (lcall[t] = LIdle /\ lret'[t] # lret[t])

(* C23: log_event never raises; a call that returns False, for an invalid *)
(* event or a persistence failure at any point, leaves the stored rows as *)
(* they were and the mutex not held by the caller; the mutex is only ever *)
(* held by a thread inside its with block, so that a waiting thread gets  *)
(* it.                                                                    *)
Thm_C23 ==
  /\ [](\A t \in LogThreads :
          /\ lret[t].op = "log_event" => lret[t].kind = "value"
          /\ log_lock = t => InLoggerSection(t))
  /\ [][\A t \in LogThreads :
          (LReturns(t, "log_event") /\ ~lret'[t].val) =>
             /\ rows' = rows
             /\ log_lock' # t]_vars

(* A log_event failed at its commit with a row stored before it, and the *)
(* other thread has since entered its own with block.                    *)
Wit_C23 ==
  \E t, u \in LogThreads :
    /\ t # u
    /\ lret[t].op = "log_event" /\ lret[t].cause = "commit" /\ ~lret[t].val
    /\ log_lock = u
    /\ Len(rows) = 1

(* What recent(limit) returns: strictly decreasing ids, rows of the *)
(* table, none of the rows left out newer than one returned.        *)
NewestFirst(r, table) ==
  /\ \A i, j \in 1..Len(r) : i < j => r[i].id > r[j].id
  /\ \A i \in 1..Len(r) : \E k \in 1..Len(table) : table[k] = r[i]
  /\ \A k \in 1..Len(table) :
       (\A i \in 1..Len(r) : r[i] # table[k]) =>
          \A i \in 1..Len(r) : table[k].id < r[i].id

(* C24 as stated: recent(limit) returns min(limit, count()) rows, the *)
(* most recently inserted ones, in strictly decreasing id order.      *)
CE_C24 ==
  [][\A t \in LogThreads :
       LReturns(t, "recent") =>
          /\ Len(lret'[t].rows) = Min(lret'[t].limit, Len(rows))
          /\ NewestFirst(lret'[t].rows, rows)]_vars

(* C24 as amended: a recent(limit) whose read succeeds returns the most  *)
(* recently inserted rows in strictly decreasing id order, min(limit, n) *)
(* of the n stored for limit >= 0 and all n for a negative limit; one    *)
(* whose read fails returns no rows.                                     *)
Thm_C24 ==
  [][\A t \in LogThreads :
       LReturns(t, "recent") =>
          LET r == lret'[t].rows
              limit == lret'[t].limit
          IN IF lret'[t].cause = "ok"
             THEN /\ Len(r) = IF limit < 0 THEN Len(rows)
                              ELSE Min(limit, Len(rows))
                  /\ NewestFirst(r, rows)
             ELSE r = <<>>]_vars

(* recent(1) returned the newer of two stored rows. *)
Wit_C24 ==
  \E t \in LogThreads :
    /\ lret[t].op = "recent" /\ lret[t].limit = 1 /\ lret[t].cause = "ok"
    /\ Len(rows) = 2
    /\ Len(lret[t].rows) = 1 /\ lret[t].rows[1].id = 2

Thm_C26 ==
  /\ Cardinality({t \in LogThreads : InLoggerSection(t)}) <= 1
  /\ Len(rows) = okCount

(* A thread waits for the mutex while the other is about to commit its *)
(* row, a row being stored already.                                    *)
Wit_C26 ==
  \E t, u \in LogThreads :
    /\ lcall[t].pc = "acquire"
    /\ lcall[u].pc = "commit"
    /\ okCount = 1

(* The rate a call of demodulate works at: the one passed, or the rate *)
(* of construction when none is.                                       *)
RateOf(call) ==
  IF call.sample_rate # 0 THEN call.sample_rate ELSE DemodSampleRate

(* C27 as stated: for every mode and every non-empty chunk whose mean   *)
(* power in dB is below the squelch threshold, demodulate returns an    *)
(* all-zero vector of length floor(len / D), D = floor(sample_rate /    *)
(* audio_rate) (D at least 1, for the quotient to exist).               *)
CE_C27 ==
  (/\ dem # NoDemod
   /\ dem.samples.n > 0
   /\ RateOf(dem) >= AudioRate
   /\ dem.samples.power < FromDb(dem.squelch_threshold_db)) =>
     /\ dem.result.kind = "audio"
     /\ dem.result.zero
     /\ dem.result.len = dem.samples.n \div (RateOf(dem) \div AudioRate)

(* C27 as amended: for every mode and every non-empty chunk whose mean  *)
(* power plus 1e-10, in dB, is below the squelch threshold, demodulate  *)
(* returns an all-zero vector of length floor(len / D), D = floor(      *)
(* sample_rate / audio_rate) being at least 1 and sample_rate being the *)
(* rate of construction when none is passed.                            *)
Thm_C27 ==
  (/\ dem # NoDemod
   /\ dem.samples.n > 0
   /\ RateOf(dem) >= AudioRate
   /\ dem.samples.power + Epsilon < FromDb(dem.squelch_threshold_db)) =>
     LET D == RateOf(dem) \div AudioRate
     IN /\ dem.result.kind = "audio"
        /\ dem.result.zero
        /\ dem.result.len * D <= dem.samples.n
        /\ dem.samples.n < (dem.result.len + 1) * D

(* A modulated chunk of 4 samples below the squelch came back from the *)
(* WFM demodulator, at decimation 3, as one sample of silence.         *)
Wit_C27 ==
  /\ dem # NoDemod
  /\ dem.mode = "WFM" /\ dem.samples.n = 4 /\ dem.samples.modulated
  /\ dem.samples.power = 50 /\ dem.squelch_threshold_db = -90
  /\ dem.sample_rate = 144000
  /\ dem.result = Silence(1)

(* C28: demodulate raises in no mode: an empty chunk gives an empty *)
(* output, an impossible input an empty or silent one.              *)
CE_C28 ==
  dem # NoDemod =>
    /\ dem.result.kind = "audio"
    /\ dem.samples.n = 0 => dem.result.len = 0
    /\ RateOf(dem) < AudioRate => dem.result.zero

(* C29: in manual mode a chunk is demodulated with the mode selected     *)
(* through set_demod_mode: once a mode is selected, a chunk read later   *)
(* than the first one read after the selection is demodulated with it.   *)
CE_C29 == lastDemod.age >= 2 => lastDemod.mode = lastDemod.sel

(* C30: with no audio sink, set_manual_mode(f) followed by a successful *)
(* start_scan() leaves the mode flag Manual, and the worker tunes to no *)
(* band of the scan mode.                                               *)
CE_C30 ==
  (audio_stream = None /\ dmon \in {"armed", "bad"}) =>
     (manual_mode /\ dmon = "armed")

(* C31: after set_volume(v) the stored volume is v when v lies in        *)
(* [0, 1], 0 when v is below 0 and 1 when v is above 1.                  *)
Thm_C31 ==
  (dem # NoDemod /\ dem.op = "set_volume") =>
     /\ dem.volume >= 0 /\ dem.volume <= FullVolume
     /\ (dem.arg >= 0 /\ dem.arg <= FullVolume) => dem.volume = dem.arg
     /\ dem.arg < 0 => dem.volume = 0
     /\ dem.arg > FullVolume => dem.volume = FullVolume

(* set_volume(1.5) has left the volume at 1.0. *)
Wit_C31 ==
  /\ dem # NoDemod /\ dem.op = "set_volume"
  /\ dem.arg = 150 /\ dem.volume = FullVolume

(* C32: while the worker streams in manual mode, a new manual frequency *)
(* takes effect at the next loop head: at most one further chunk is     *)
(* read at the old frequency before the worker tunes to the new one.    *)
CE_C32 == staleReads.n <= 1

(* C33: while the worker sweeps a band, set_manual_mode(f) is observed  *)
(* between frequency steps: after it returns the worker makes at most   *)
(* one further scan-mode tune and read before it leaves the sweep.      *)
CE_C33 == lateTunes <= 1

(* C34: whenever the worker has read samples in scan mode, the sample   *)
(* rate configured on the connected device is the scan rate, also after *)
(* manual mode and after a disconnect and reconnect.                    *)
CE_C34 ==
  (io.op = "read_samples" /\ io.src = "scan" /\ samples # NoSamples) =>
     sdr.sample_rate = ScanRate

(* The driver calls a sweep of band b is to make, from frequency f on. *)
RECURSIVE SweepFrom(_, _)
SweepFrom(b, f) ==
  IF f > b.end_freq_hz THEN <<>>
  ELSE <<[op |-> "tune", arg |-> f, src |-> "scan"],
         [op |-> "read_samples", arg |-> NumSamples, src |-> "scan"]>>
       \o SweepFrom(b, f + b.step_size_hz)

(* The driver calls a scan cycle is to make over the bands from the i-th. *)
RECURSIVE CycleFrom(_)
CycleFrom(i) ==
  IF i > Len(bands) THEN <<>>
  ELSE (IF bands[i].enabled
        THEN <<[op |-> "set_gain", arg |-> BandGain(bands[i]),
                src |-> "scan"]>> \o SweepFrom(bands[i], bands[i].start_freq_hz)
        ELSE <<>>) \o CycleFrom(i + 1)

IsPrefix(s, t) == Len(s) <= Len(t) /\ s = SubSeq(t, 1, Len(s))

(* C35: in an uninterrupted scan cycle whose driver calls all succeed,  *)
(* the bands are swept in configured order, a disabled band gets no     *)
(* driver call, and an enabled band gets tune(start + k*step) for       *)
(* k = 0..floor((end - start) / step) in increasing order, each tune    *)
(* followed by exactly one read_samples; every sweep of a band ends.    *)
Thm_C35 ==
  /\ [](/\ IsPrefix(trace, CycleFrom(1))
        /\ (wpc = "run" /\ initialized) => trace = CycleFrom(1))
  /\ (wpc = "scan_band" ~> wpc = "band_head")

(* A cycle has swept the first band at 100.0 and 100.1 MHz and the      *)
(* third at 146.5 MHz, and is back at the head of run.                  *)
Wit_C35 ==
  /\ wpc = "run" /\ initialized
  /\ Len(trace) = 8
  /\ trace[2].arg = 100000000 /\ trace[4].arg = 100100000
  /\ trace[7].arg = 146500000 /\ trace[8].op = "read_samples"

(* C36: in scan mode a failed tune(f) is followed by no read_samples    *)
(* for f, a failed read_samples by no analysis and no event for f; the  *)
(* worker goes on to f + step either way, and neither failure changes   *)
(* the run flag or the mode.                                            *)
Thm_C36 ==
  [][/\ (wpc \in {"tune", "read"} /\ wpc' = "freq_head") =>
          /\ current_freq' = current_freq + bands[band_idx].step_size_hz
          /\ samples' = NoSamples
          /\ UNCHANGED <<scan_paused, manual_mode, result_queue,
                         raw_data_queue, nput, band_idx>>
     /\ (wpc' = "dwell" /\ wpc # "dwell") =>
          /\ wpc = "tune" /\ is_connected
          /\ sdr'.center_freq = current_freq
     /\ (wpc' = "analyze" /\ wpc # "analyze") =>
          /\ wpc = "read" /\ is_connected /\ samples' # NoSamples
     /\ Len(result_queue') > Len(result_queue) =>
          /\ wpc = "analyze" /\ samples # NoSamples]_vars

(* read_samples has failed at 100.0 MHz, which the worker had tuned to, *)
(* and the worker is at the loop head with 100.1 MHz, still running in  *)
(* scan mode.                                                           *)
Wit_C36 ==
  /\ io = [op |-> "read_samples", arg |-> NumSamples, src |-> "scan"]
  /\ samples = NoSamples /\ wpc = "freq_head"
  /\ current_freq = 100100000 /\ band_idx = 1
  /\ scan_paused /\ ~manual_mode

(* C37: the scanning property is true exactly when the scanner is       *)
(* active (the run flag set by start_scan and not cleared since) and    *)
(* false exactly when it is paused.                                     *)
CE_C37 == ret.op = "scanning" => (ret.val <=> scan_paused)

(* C38: once shutdown() has stopped and closed the audio stream, the    *)
(* worker never calls write on it.                                      *)
CE_C38 == ~(io.op = "write" /\ audio_stream = "closed")

(* The gain a band's descriptor asks the device for. *)
DescriptorGain(band) ==
  IF band.gain.auto THEN [auto |-> TRUE, db |-> 0]
  ELSE [auto |-> FALSE, db |-> band.gain.db]

(* C39: in scan mode the device gain at every read is the gain of the   *)
(* band being swept unless set_gain was called during that band; the    *)
(* band head overrides what set_gain last applied, and                  *)
(* get_current_gain() keeps returning the value set_gain was handed.    *)
CE_C39 ==
  /\ (/\ io.op = "read_samples" /\ io.src = "scan" /\ samples # NoSamples
      /\ ~gainTouched) => sdr.gain = DescriptorGain(bands[band_idx])
  /\ ret.op = "get_current_gain" => ret.val = current_gain

(* C40: log_event stores in the power_db column the event's             *)
(* relative_power_db whenever the event carries it and the event's      *)
(* power_db only when it does not; an event whose timestamp is empty or *)
(* whose frequency_hz is 0 is rejected: the call returns False, the     *)
(* rows stay as they were, and no such event gets as far as the table.  *)
Thm_C40 ==
  /\ [](/\ \A t \in LogThreads :
            lcall[t].op = "log_event" =>
              /\ lcall[t].event.timestamp # ""
              /\ lcall[t].event.frequency_hz # 0
        /\ \A i \in 1..Len(rows) :
              rows[i].timestamp # "" /\ rows[i].frequency_hz # 0)
  /\ [][\A t \in LogThreads :
          /\ (/\ lcall[t].op = "log_event" /\ lcall'[t] = LIdle
              /\ Len(rows') = Len(rows) + 1) =>
                LET e == lcall[t].event
                    r == rows'[Len(rows')]
                IN /\ e.has_rel => r.power_db = e.relative_power_db
                   /\ ~e.has_rel => r.power_db = e.power_db
          /\ (/\ lcall[t] = LIdle /\ lret'[t] # lret[t]
              /\ lret'[t].cause = "invalid") =>
                /\ ~lret'[t].val /\ lret'[t].kind = "value"
                /\ rows' = rows]_vars

(* The table holds a detection stored with its relative power (26, not  *)
(* its power_db of 10) and one stored with its power_db, and a call     *)
(* with an invalid event has returned False.                            *)
Wit_C40 ==
  /\ Len(rows) = 2
  /\ \E i \in 1..2 : rows[i].timestamp = "T1" /\ rows[i].power_db = 26
  /\ \E i \in 1..2 : rows[i].timestamp = "T2" /\ rows[i].power_db = 10
  /\ \E t \in LogThreads : lret[t].cause = "invalid" /\ ~lret[t].val

====
